---- MODULE Spec2Model ----
(***************************************************************************)
(* Verification model of the citation validator (parser, rule engine,      *)
(* auto-fix engine, scoring, enrichment gate).                             *)
(*                                                                         *)
(* Strings are modelled as sequences of tokens (each token an atomic       *)
(* substring); the empty string is <<>>.  A JavaScript `undefined` is the  *)
(* value `undefined` below.  Scores are kept doubled (halves are exact).   *)
(***************************************************************************)
EXTENDS Integers, Sequences, FiniteSets, TLC

\* ------------------------------------------------------------------------
\* State
\* ------------------------------------------------------------------------
\* scoring harness: the two argument lists of calculateScore and its result
VARIABLES sc_errors, sc_fixes, sc_score, sc_pc
\* fixer harness: the heap of author objects, the record given (references
\* into the heap), its value at the start, and what each step produced
VARIABLES fx_heap, fx_citation, fx_before, fx_routed, fx_errors, fx_fixed,
          fx_autoFixes, fx_manualFixes, fx_score, fx_pc

\* the process-wide RateLimiter and the callers of its execute()
VARIABLES rl_running, rl_pc

\* parseCitation: its argument, the record it builds, the text still to be
\* read, whether the catch block ran, and its position
VARIABLES ps_text, ps_citation, ps_rem, ps_failed, ps_pc

\* one call of validateCitation or validateCitationWithoutCrossRef: which
\* function, its arguments, the parsed record while the enrichment call is
\* awaited, what the collaborator answered, the result, and its position
VARIABLES vd_call, vd_text, vd_useCrossRef, vd_parsed, vd_work, vd_typeChanged, vd_result,
          vd_pc

\* validateCitations: its arguments, the texts of the parsed blocks, the
\* results pushed so far, what each enrichment call answered, the enrichment
\* calls started and those in flight, the pauses elapsed, and its position
VARIABLES bt_text, bt_useCrossRef, bt_citations, bt_results, bt_answers, bt_started,
          bt_inFlight, bt_pauses, bt_pc

\* POST /api/validate: the body of the request, the calls of validateCitations
\* made, the response, and the position of the handler
VARIABLES rq_body, rq_calls, rq_response, rq_pc

\* parse, reconstruct, parse again: the text, its record and violations, the
\* reconstructed string, its record, and the position
VARIABLES rt_text, rt_citation, rt_errors, rt_string, rt_reparsed, rt_pc

\* the rules run in two orders over one record: the record, the order
\* tried, the outcome in the order of the table, the outcome in the order
\* tried, the violations of the corrected record, and the position
VARIABLES od_citation, od_order, od_table, od_permuted, od_again, od_pc

\* useCitationValidator: its three pieces of state and the position of
\* each call of validate
VARIABLES hk_results, hk_isLoading, hk_error, hk_pc

scoreVars == <<sc_errors, sc_fixes, sc_score, sc_pc>>
fixVars == <<fx_heap, fx_citation, fx_before, fx_routed, fx_errors, fx_fixed,
             fx_autoFixes, fx_manualFixes, fx_score, fx_pc>>
limiterVars == <<rl_running, rl_pc>>
parseVars == <<ps_text, ps_citation, ps_rem, ps_failed, ps_pc>>
validateVars == <<vd_call, vd_text, vd_useCrossRef, vd_parsed, vd_work, vd_typeChanged,
                  vd_result, vd_pc>>
batchVars == <<bt_text, bt_useCrossRef, bt_citations, bt_results, bt_answers, bt_started,
               bt_inFlight, bt_pauses, bt_pc>>
routeVars == <<rq_body, rq_calls, rq_response, rq_pc>>
roundTripVars == <<rt_text, rt_citation, rt_errors, rt_string, rt_reparsed, rt_pc>>
orderVars == <<od_citation, od_order, od_table, od_permuted, od_again, od_pc>>
hookVars == <<hk_results, hk_isLoading, hk_error, hk_pc>>
vars == <<scoreVars, fixVars, limiterVars, parseVars, validateVars, batchVars, routeVars,
          roundTripVars, orderVars, hookVars>>

exceptScore == <<fixVars, limiterVars, parseVars, validateVars, batchVars, routeVars,
  roundTripVars,
  orderVars, hookVars>>
exceptFix == <<scoreVars, limiterVars, parseVars, validateVars, batchVars, routeVars,
  roundTripVars,
  orderVars, hookVars>>
exceptLimiter == <<scoreVars, fixVars, parseVars, validateVars, batchVars, routeVars,
  roundTripVars,
  orderVars, hookVars>>
exceptParse == <<scoreVars, fixVars, limiterVars, validateVars, batchVars, routeVars,
  roundTripVars,
  orderVars, hookVars>>
exceptValidate == <<scoreVars, fixVars, limiterVars, parseVars, batchVars, routeVars,
  roundTripVars,
  orderVars, hookVars>>
exceptBatch == <<scoreVars, fixVars, limiterVars, parseVars, validateVars, routeVars,
  roundTripVars,
  orderVars, hookVars>>
exceptRoute == <<scoreVars, fixVars, limiterVars, parseVars, validateVars, batchVars,
  roundTripVars,
  orderVars, hookVars>>
exceptOrder == <<scoreVars, fixVars, limiterVars, parseVars, validateVars, batchVars,
  routeVars, roundTripVars, hookVars>>
exceptHook == <<scoreVars, fixVars, limiterVars, parseVars, validateVars, batchVars,
  routeVars, roundTripVars, orderVars>>
exceptRoundTrip == <<scoreVars, fixVars, limiterVars, parseVars, validateVars, batchVars,
  routeVars,
  orderVars, hookVars>>

\* ------------------------------------------------------------------------
\* Bounds of the model
\* ------------------------------------------------------------------------
MaxMixed == 2
MaxBulk == 10
MaxScoreFixes == 3
MaxDeviations == 2
\* concurrent callers of rateLimiter.execute
MaxCallers == 5
\* blocks of the text given to validateCitations
MaxBlocks == 3
\* fields of a record of the order harness that depart from the baseline
MaxOrderDeviations == 1
\* overlapping calls of the hook's validate
MaxValidateCalls == 3

\* ------------------------------------------------------------------------
\* JavaScript value helpers
\* ------------------------------------------------------------------------
undefined == <<"<undefined>">>

Truthy(s) == s # undefined /\ s # <<>>

RECURSIVE SeqsUpTo(_, _)
SeqsUpTo(S, n) ==
  IF n = 0 THEN {<<>>}
  ELSE LET shorter == SeqsUpTo(S, n - 1)
       IN shorter \cup {Append(s, x) : s \in {t \in shorter : Len(t) = n - 1}, x \in S}

Repeat(x, n) == [i \in 1..n |-> x]

Max(a, b) == IF a >= b THEN a ELSE b
Min(a, b) == IF a <= b THEN a ELSE b

\* first index i with P holding of s[i], 0 when none (Array.prototype.find)
FindIndex(s, P(_)) ==
  IF \E i \in 1..Len(s) : P(s[i])
  THEN CHOOSE i \in 1..Len(s) : P(s[i]) /\ \A j \in 1..(i - 1) : ~P(s[j])
  ELSE 0

\* ------------------------------------------------------------------------
\* String operations on token sequences
\* ------------------------------------------------------------------------
Last(s) == s[Len(s)]
Front(s) == SubSeq(s, 1, Len(s) - 1)

StartsWithTok(s, t) == Len(s) > 0 /\ s[1] = t
EndsWithTok(s, t) == Len(s) > 0 /\ Last(s) = t
IncludesTok(s, t) == \E i \in 1..Len(s) : s[i] = t

RECURSIVE RemoveFirstTok(_, _)
\* s.replace(/t/, '') : only the first occurrence
RemoveFirstTok(s, t) ==
  IF s = <<>> THEN <<>>
  ELSE IF Head(s) = t THEN Tail(s)
  ELSE <<Head(s)>> \o RemoveFirstTok(Tail(s), t)

\* s.replace(/a/g, b)
ReplaceAllTok(s, a, b) == [i \in 1..Len(s) |-> IF s[i] = a THEN b ELSE s[i]]

\* the tokens that end with white space, and what is left of them without it
WithoutTrailingSpace == [t \in {". ", ", ", "& "} |->
                           CASE t = ". " -> "." [] t = ", " -> "," [] t = "& " -> "&"]

\* white space tokens: a space, a line break
WhiteSpace == {" ", "\n"}

RECURSIVE TrimLeft(_)
TrimLeft(s) == IF s # <<>> /\ Head(s) \in WhiteSpace THEN TrimLeft(Tail(s)) ELSE s
RECURSIVE TrimRight(_)
TrimRight(s) ==
  IF s = <<>> THEN s
  ELSE IF Last(s) \in WhiteSpace THEN TrimRight(Front(s))
  ELSE IF Last(s) \in DOMAIN WithoutTrailingSpace
  THEN Append(Front(s), WithoutTrailingSpace[Last(s)])
  ELSE s
\* String.prototype.trim
Trim(s) == TrimRight(TrimLeft(s))

RECURSIVE Flatten(_)
Flatten(ss) == IF ss = <<>> THEN <<>> ELSE Head(ss) \o Flatten(Tail(ss))

RECURSIVE SelectIdx(_, _)
\* the increasing sequence of the indices of a set of naturals
SelectIdx(S, n) ==
  IF n = 0 THEN <<>>
  ELSE IF n \in S THEN Append(SelectIdx(S, n - 1), n) ELSE SelectIdx(S, n - 1)

\* digit runs: /^\d+$/
DigitToks == {"45", "2", "123", "145", "4", "267", "282"}
IsDigits(s) == s # <<>> /\ \A i \in 1..Len(s) : s[i] \in DigitToks

\* ------------------------------------------------------------------------
\* Word lexicon: case conversions are table driven
\* ------------------------------------------------------------------------
LexBase == {"the", "impact", "education", "of", "ai", "journal", "technology", "handbook", "in"}

\* word.charAt(0).toUpperCase() + word.slice(1).toLowerCase(), on lower-case w
CapOfBase ==
  [b \in LexBase |->
     CASE b = "the" -> "The" [] b = "impact" -> "Impact" [] b = "education" -> "Education"
       [] b = "of" -> "Of" [] b = "ai" -> "Ai" [] b = "journal" -> "Journal"
       [] b = "technology" -> "Technology" [] b = "handbook" -> "Handbook" [] b = "in" -> "In"]

\* the all-capitals form, for the words used as acronyms
UpperOfBase == [b \in {"ai"} |-> "AI"]

Words == LexBase \cup {CapOfBase[b] : b \in LexBase} \cup {UpperOfBase[b] : b \in DOMAIN UpperOfBase}

\* word.toLowerCase()
ToLowerWord(w) ==
  IF w \in LexBase THEN w
  ELSE IF \E b \in LexBase : CapOfBase[b] = w THEN CHOOSE b \in LexBase : CapOfBase[b] = w
  ELSE IF \E b \in DOMAIN UpperOfBase : UpperOfBase[b] = w
       THEN CHOOSE b \in DOMAIN UpperOfBase : UpperOfBase[b] = w
  ELSE w

Capitalize(w) == IF ToLowerWord(w) \in LexBase THEN CapOfBase[ToLowerWord(w)] ELSE w

\* /^[A-Z]{2,5}$/
IsAcronym(w) == \E b \in DOMAIN UpperOfBase : UpperOfBase[b] = w
\* /^[A-Z]/
StartsUpper(w) == w \in Words /\ w \notin LexBase
\* /^[a-z]/
StartsLower(w) == w \in LexBase
\* w.length
WordLen(w) ==
  LET b == ToLowerWord(w)
  IN CASE b \in {"of", "ai", "in"} -> 2
       [] b = "the" -> 3
       [] b = "impact" -> 6
       [] b = "journal" -> 7
       [] b = "handbook" -> 8
       [] b = "education" -> 9
       [] b = "technology" -> 10
       [] OTHER -> 1

\* delimiters of toSentenceCase: /([:.]\s)/ ; the delimiter cannot be told
\* from the end of the word before it by split(/\s+/)
Delims == {": "}

\* ------------------------------------------------------------------------
\* rules.ts : violations and the text helpers of the rules
\* ------------------------------------------------------------------------
Types == {"journal", "book", "chapter", "web", "report", "conference", "dissertation", "unknown"}

\* a ValidationError; message is kept as its wording key and the author
\* number embedded in it (0 when the wording has none)
Violation(rule, field, key, author, severity, original, suggested, autoFixable) ==
  [rule |-> rule, field |-> field, message |-> [key |-> key, author |-> author],
   severity |-> severity, original |-> original, suggested |-> suggested,
   autoFixable |-> autoFixable]

JSONStringify(author) == <<"{">> \o author.lastName \o <<",">> \o author.initials \o <<"}">>

\* the words of a title: title.split(/\s+/), the delimiter staying on the
\* word before it
WordIdx(title) == {i \in 1..Len(title) : title[i] \notin Delims}
WordLenAt(title, i) ==
  WordLen(title[i]) + (IF i < Len(title) /\ title[i + 1] \in Delims THEN 1 ELSE 0)

toSentenceCase(title) ==
  [i \in 1..Len(title) |->
     IF title[i] \in Delims THEN title[i]
     ELSE IF i = 1 \/ title[i - 1] \in Delims THEN Capitalize(title[i])
     ELSE IF IsAcronym(title[i]) THEN title[i]
     ELSE ToLowerWord(title[i])]

isLikelyTitleCase(title) ==
  LET words == {i \in WordIdx(title) : WordLenAt(title, i) > 3}
      capitalizedWords == {i \in words : StartsUpper(title[i])}
  IN /\ Cardinality(capitalizedWords) >= 3
     /\ 10 * Cardinality(capitalizedWords) >= 6 * Cardinality(words)

\* --- initials, character by character ---------------------------------
UpperChars == {"B", "Y"}

\* /^([A-Z]\.\s)*[A-Z]\.$/
initialsPattern(s) ==
  /\ Len(s) >= 2
  /\ Len(s) % 3 = 2
  /\ \A i \in 1..Len(s) :
       CASE i % 3 = 1 -> s[i] \in UpperChars
         [] i % 3 = 2 -> s[i] = "."
         [] OTHER -> s[i] = " "

\* .replace(/\./g, '. ')
RECURSIVE SpaceAfterPeriods(_)
SpaceAfterPeriods(s) ==
  IF s = <<>> THEN <<>>
  ELSE IF Head(s) = "." THEN <<".", " ">> \o SpaceAfterPeriods(Tail(s))
  ELSE <<Head(s)>> \o SpaceAfterPeriods(Tail(s))

\* .replace(/\s+/g, ' ')
RECURSIVE CollapseSpaces(_)
CollapseSpaces(s) ==
  IF Len(s) < 2 THEN s
  ELSE IF s[1] = " " /\ s[2] = " " THEN CollapseSpaces(Tail(s))
  ELSE <<Head(s)>> \o CollapseSpaces(Tail(s))

\* .split(' ')
RECURSIVE SplitSpaces(_, _)
SplitSpaces(s, cur) ==
  IF s = <<>> THEN <<cur>>
  ELSE IF Head(s) = " " THEN <<cur>> \o SplitSpaces(Tail(s), <<>>)
  ELSE SplitSpaces(Tail(s), Append(cur, Head(s)))

\* .join(' ')
RECURSIVE JoinSpaces(_)
JoinSpaces(ps) ==
  IF ps = <<>> THEN <<>>
  ELSE IF Len(ps) = 1 THEN ps[1]
  ELSE ps[1] \o <<" ">> \o JoinSpaces(Tail(ps))

\* the suggestion of checkAuthorFormat for malformed initials
suggestedInitials(initials) ==
  LET pieces == SplitSpaces(Trim(CollapseSpaces(SpaceAfterPeriods(initials))), <<>>)
  IN JoinSpaces([k \in 1..Len(pieces) |->
                   IF EndsWithTok(pieces[k], ".") THEN pieces[k] ELSE Append(pieces[k], ".")])

\* ------------------------------------------------------------------------
\* rules.ts : the rules (each maps a citation to its list of violations)
\* ------------------------------------------------------------------------
authorViolations(author, index) ==
  IF author.isGroupAuthor
  THEN IF Trim(author.lastName) = <<>>
       THEN <<Violation("authorFormat", "authors", "missing organization name", index,
                        "error", JSONStringify(author), undefined, FALSE)>>
       ELSE <<>>
  ELSE (IF author.initials = <<>>
        THEN <<Violation("authorFormat", "authors", "missing initials", index,
                         "error", author.lastName, undefined, FALSE)>>
        ELSE IF ~initialsPattern(author.initials)
        THEN <<Violation("authorFormat", "authors", "initials should be formatted", index,
                         "error", author.initials, suggestedInitials(author.initials), TRUE)>>
        ELSE <<>>)
       \o
       (IF Trim(author.lastName) = <<>>
        THEN <<Violation("authorFormat", "authors", "missing last name", index,
                         "error", JSONStringify(author), undefined, FALSE)>>
        ELSE <<>>)

checkAuthorFormat(citation) ==
  Flatten([i \in 1..Len(citation.authors) |-> authorViolations(citation.authors[i], i)])

FourDigitToks == {"2024"}

\* /^\d{4}$|^n\.d\.$|^in press$/
validYear(year) == year \in ({<<t>> : t \in FourDigitToks} \cup {<<"n.d.">>, <<"in press">>})

checkYearFormat(citation) ==
  IF ~Truthy(citation.year)
  THEN <<Violation("yearFormat", "year", "Year is missing", 0, "error", <<>>, undefined, FALSE)>>
  ELSE IF ~validYear(citation.year)
  THEN LET hits == {i \in 1..Len(citation.year) : citation.year[i] \in FourDigitToks}
           suggested == IF hits = {} THEN <<>>
                        ELSE <<citation.year[CHOOSE i \in hits : \A j \in hits : i <= j]>>
       IN <<Violation("yearFormat", "year", "Year should be 4-digit format", 0, "error",
                      citation.year, suggested, Truthy(suggested))>>
  ELSE <<>>

checkTitleCase(citation) ==
  IF ~Truthy(citation.title)
  THEN <<Violation("titleCase", "title", "Title is missing", 0, "error", <<>>, undefined, FALSE)>>
  ELSE IF isLikelyTitleCase(citation.title)
  THEN <<Violation("titleCase", "title", "Title should use sentence case", 0, "warning",
                   citation.title, toSentenceCase(citation.title), TRUE)>>
  ELSE <<>>

checkDOIPresence(citation) ==
  IF citation.type = "journal" /\ ~Truthy(citation.doi)
  THEN <<Violation("doiPresence", "doi", "DOI should be included", 0, "warning",
                   <<>>, undefined, FALSE)>>
  ELSE <<>>

\* /^10\.\d+\// : the identifier tokens that begin with a registrant prefix
DoiNumberToks == {"10.1234/test"}
ResolverPrefix == "https://doi.org/"

checkDOIFormat(citation) ==
  IF ~Truthy(citation.doi) THEN <<>>
  ELSE
    LET doi == Trim(citation.doi)
    IN (IF EndsWithTok(doi, ".")
        THEN <<Violation("doiFormat", "doi", "DOI should not end with a period", 0, "error",
                         doi, Front(doi), TRUE)>>
        ELSE <<>>)
       \o
       (IF StartsWithTok(doi, "doi:")
        THEN <<Violation("doiFormat", "doi", "DOI should use format https://doi.org/...", 0,
                         "error", doi, <<ResolverPrefix>> \o TrimLeft(Tail(doi)), TRUE)>>
        ELSE IF ~StartsWithTok(doi, ResolverPrefix)
        THEN IF doi # <<>> /\ doi[1] \in DoiNumberToks
             THEN <<Violation("doiFormat", "doi", "DOI should include full URL", 0, "error",
                              doi, <<ResolverPrefix>> \o doi, TRUE)>>
             ELSE <<Violation("doiFormat", "doi", "DOI should start with https://doi.org/", 0,
                              "error", doi, undefined, FALSE)>>
        ELSE <<>>)

VolPrefix == "Vol. "
NoPrefix == "No. "
PpPrefix == "pp. "
Hyphen == "-"
EnDash == "<en dash>"

checkVolumeIssueFormat(citation) ==
  (IF Truthy(citation.volume)
   THEN (IF IncludesTok(citation.volume, VolPrefix)
         THEN <<Violation("volumeFormat", "volume", "Volume should not include Vol. prefix", 0,
                          "error", citation.volume,
                          RemoveFirstTok(citation.volume, VolPrefix), TRUE)>>
         ELSE <<>>)
        \o
        (IF ~IsDigits(RemoveFirstTok(citation.volume, VolPrefix))
         THEN <<Violation("volumeFormat", "volume", "Volume should be a number", 0,
                          "warning", citation.volume, undefined, FALSE)>>
         ELSE <<>>)
   ELSE <<>>)
  \o
  (IF Truthy(citation.issue) /\ IncludesTok(citation.issue, NoPrefix)
   THEN <<Violation("issueFormat", "issue", "Issue should not include No. prefix", 0,
                    "error", citation.issue, RemoveFirstTok(citation.issue, NoPrefix), TRUE)>>
   ELSE <<>>)

checkPageFormat(citation) ==
  IF ~Truthy(citation.pages) THEN <<>>
  ELSE
    LET pages == Trim(citation.pages)
        cleanPages == RemoveFirstTok(pages, PpPrefix)
    IN (IF citation.type = "journal" /\ StartsWithTok(pages, PpPrefix)
        THEN <<Violation("pageFormat", "pages", "no pp. prefix for journal articles", 0,
                         "error", pages, RemoveFirstTok(pages, PpPrefix), TRUE)>>
        ELSE <<>>)
       \o
       (IF IncludesTok(cleanPages, Hyphen) /\ ~IncludesTok(cleanPages, EnDash)
        THEN <<Violation("pageFormat", "pages", "en dash not hyphen", 0,
                         "warning", pages, ReplaceAllTok(cleanPages, Hyphen, EnDash), TRUE)>>
        ELSE <<>>)

\* citation.raw.match(/\(\d{4}/), then
\* citation.raw.substring(0, citation.raw.indexOf(yearMatch[0])), '' without a match
authorBlockOf(raw) ==
  LET hits == {i \in 1..(Len(raw) - 1) : raw[i] = "(" /\ raw[i + 1] \in FourDigitToks}
  IN IF hits = {} THEN <<>>
     ELSE SubSeq(raw, 1, (CHOOSE i \in hits : \A j \in hits : i <= j) - 1)

checkAmpersand(citation) ==
  IF Len(citation.authors) < 2 THEN <<>>
  ELSE
    (IF Len(citation.authors) <= 20
        /\ authorBlockOf(citation.raw) # <<>>
        /\ IncludesTok(authorBlockOf(citation.raw), " and ")
     THEN <<Violation("ampersand", "authors", "Use ampersand not and", 0, "error",
                      Trim(authorBlockOf(citation.raw)), undefined, TRUE)>>
     ELSE <<>>)
    \o
    (IF Len(citation.authors) > 20
     THEN <<Violation("ampersand", "authors", "For 21+ authors use ellipsis", 0, "info",
                      <<"authors listed">>, undefined, TRUE)>>
     ELSE <<>>)

MINOR_WORDS == {"the", "of", "in"}

toTitleCase(text) ==
  [i \in 1..Len(text) |->
     IF i = 1 \/ i = Len(text) THEN Capitalize(text[i])
     ELSE IF IsAcronym(text[i]) THEN text[i]
     ELSE IF ToLowerWord(text[i]) \in MINOR_WORDS THEN ToLowerWord(text[i])
     ELSE Capitalize(text[i])]

isJournalNameNotTitleCase(source) ==
  IF Len(source) < 2 THEN FALSE
  ELSE LET major == {i \in 1..Len(source) :
                       ~(i > 1 /\ i < Len(source) /\ ToLowerWord(source[i]) \in MINOR_WORDS)}
       IN Cardinality({i \in major : StartsLower(source[i])}) >= 2

checkJournalNameCase(citation) ==
  IF citation.type # "journal" \/ ~Truthy(citation.source) THEN <<>>
  ELSE IF isJournalNameNotTitleCase(citation.source)
  THEN <<Violation("journalNameCase", "source", "Journal name should use Title Case", 0,
                   "warning", citation.source, toTitleCase(citation.source), TRUE)>>
  ELSE <<>>

\* source.startsWith('In ')
StartsWithIn(source) == Len(source) >= 2 /\ source[1] = "In"

checkConferenceNameCase(citation) ==
  IF citation.type # "chapter" \/ ~Truthy(citation.source) THEN <<>>
  ELSE LET conferenceName == IF StartsWithIn(citation.source) THEN Tail(citation.source)
                             ELSE citation.source
       IN IF isJournalNameNotTitleCase(conferenceName)
          THEN <<Violation("conferenceNameCase", "source",
                           "Conference name should use Title Case", 0, "warning",
                           citation.source, <<"In">> \o toTitleCase(conferenceName), TRUE)>>
          ELSE <<>>

checkChapterEditors(citation) ==
  IF citation.type # "chapter" THEN <<>>
  ELSE IF Len(citation.editors) = 0
  THEN <<Violation("chapterEditors", "editors", "Book chapter should include editor(s)", 0,
                   "warning", <<>>, undefined, FALSE)>>
  ELSE <<>>

\* tokens that open a URL, and tokens that contain white space
UrlOpenToks == {"https://example.com", ResolverPrefix}
SpaceToks == {" ", ". ", ", ", "& ", " and ", VolPrefix, NoPrefix, PpPrefix,
              "World Health Organization", "March 15", "in press", "New York, NY: ",
              " ed.)", "(Report No. ", "(pp. ", "Paper presentation",
              "Doctoral dissertation"}
\* tokens whose last character is a period
PeriodEndToks == {".", "n.d."}

\* /https?:\/\/[^\s]+$/ or /doi\.org\/[^\s]+$/
EndsWithUrl(raw) ==
  \E i \in 1..Len(raw) :
     /\ raw[i] \in UrlOpenToks
     /\ \A j \in (i + 1)..Len(raw) : raw[j] \notin SpaceToks

checkTerminalPeriod(citation) ==
  LET raw == Trim(citation.raw)
  IN IF raw = <<>> THEN <<>>
     ELSE IF EndsWithUrl(raw) THEN <<>>
     ELSE IF Last(raw) \notin PeriodEndToks
     THEN <<Violation("terminalPeriod", "raw", "Citation should end with a period", 0,
                      "warning", <<Last(raw)>>, Append(raw, "."), TRUE)>>
     ELSE <<>>

checkFullDateRequired(citation) ==
  IF citation.type # "conference" THEN <<>>
  ELSE IF ~Truthy(citation.fullDate)
  THEN <<Violation("fullDateRequired", "year", "should include the full date", 0, "warning",
                   IF Truthy(citation.year) THEN citation.year ELSE <<>>, undefined, FALSE)>>
  ELSE <<>>

checkPublisherRequired(citation) ==
  IF citation.type \notin {"book", "chapter", "report"} THEN <<>>
  ELSE IF ~Truthy(citation.publisher) /\ ~Truthy(citation.source)
  THEN <<Violation("publisherRequired", "publisher", "should include a publisher", 0, "error",
                   <<>>, undefined, FALSE)>>
  ELSE <<>>

checkEditionFormat(citation) ==
  IF ~Truthy(citation.edition) THEN <<>>
  ELSE IF ~IsDigits(citation.edition)
  THEN <<Violation("editionFormat", "edition", "Edition should be a number", 0, "error",
                   citation.edition, undefined, FALSE)>>
  ELSE <<>>

\* /^([A-Z][a-zA-Z\s]+,\s*[A-Z]{2}:\s*)/
LocationToks == {"New York, NY: "}

checkPublisherLocation(citation) ==
  LET pub == IF Truthy(citation.publisher) THEN citation.publisher
             ELSE IF Truthy(citation.source) THEN citation.source ELSE <<>>
  IN IF pub # <<>> /\ pub[1] \in LocationToks
     THEN <<Violation("publisherLocation", "publisher", "Remove City, ST: prefix", 0,
                      "warning", pub, Trim(Tail(pub)), TRUE)>>
     ELSE <<>>

checkInPrefix(citation) ==
  IF citation.type # "chapter" \/ ~Truthy(citation.source) THEN <<>>
  ELSE IF ~StartsWithIn(citation.source)
  THEN <<Violation("inPrefix", "source", "source should begin with In", 0, "error",
                   citation.source, <<"In">> \o citation.source, TRUE)>>
  ELSE <<>>

checkBracketType(citation) ==
  IF citation.type \notin {"conference", "dissertation"} THEN <<>>
  ELSE IF ~Truthy(citation.bracketType)
  THEN <<Violation("bracketType", "bracketType", "should include type descriptor", 0, "error",
                   <<>>, undefined, FALSE)>>
  ELSE <<>>

checkConferenceInfo(citation) ==
  IF citation.type # "conference" THEN <<>>
  ELSE IF ~Truthy(citation.conferenceName)
  THEN <<Violation("conferenceInfo", "conferenceName", "should include conference name", 0,
                   "error", <<>>, undefined, FALSE)>>
  ELSE <<>>

checkDissertationInfo(citation) ==
  IF citation.type # "dissertation" THEN <<>>
  ELSE IF ~Truthy(citation.institution)
  THEN <<Violation("dissertationInfo", "institution", "should include institution name", 0,
                   "error", <<>>, undefined, FALSE)>>
  ELSE <<>>

checkReportNumber(citation) ==
  IF citation.type # "report" THEN <<>>
  ELSE IF ~Truthy(citation.reportNumber)
  THEN <<Violation("reportNumber", "reportNumber", "should include a report number", 0,
                   "info", <<>>, undefined, FALSE)>>
  ELSE <<>>

\* ------------------------------------------------------------------------
\* rules.ts : routing
\* ------------------------------------------------------------------------
\* the marker 'all' (kept as a set so that it compares with the allow-lists)
AllTypes == {"all"}

ROUTED_RULES ==
  << [rule |-> "checkAuthorFormat", appliesTo |-> AllTypes],
     [rule |-> "checkYearFormat", appliesTo |-> AllTypes],
     [rule |-> "checkTitleCase", appliesTo |-> AllTypes],
     [rule |-> "checkDOIFormat", appliesTo |-> AllTypes],
     [rule |-> "checkAmpersand", appliesTo |-> AllTypes],
     [rule |-> "checkTerminalPeriod", appliesTo |-> AllTypes],
     [rule |-> "checkDOIPresence", appliesTo |-> {"journal"}],
     [rule |-> "checkVolumeIssueFormat", appliesTo |-> {"journal"}],
     [rule |-> "checkJournalNameCase", appliesTo |-> {"journal"}],
     [rule |-> "checkPageFormat", appliesTo |-> {"journal", "chapter"}],
     [rule |-> "checkConferenceNameCase", appliesTo |-> {"chapter"}],
     [rule |-> "checkChapterEditors", appliesTo |-> {"chapter"}],
     [rule |-> "checkInPrefix", appliesTo |-> {"chapter"}],
     [rule |-> "checkPublisherRequired", appliesTo |-> {"book", "chapter", "report"}],
     [rule |-> "checkEditionFormat", appliesTo |-> {"book", "chapter"}],
     [rule |-> "checkPublisherLocation", appliesTo |-> {"book", "chapter"}],
     [rule |-> "checkFullDateRequired", appliesTo |-> {"conference"}],
     [rule |-> "checkConferenceInfo", appliesTo |-> {"conference"}],
     [rule |-> "checkBracketType", appliesTo |-> {"conference", "dissertation"}],
     [rule |-> "checkDissertationInfo", appliesTo |-> {"dissertation"}],
     [rule |-> "checkReportNumber", appliesTo |-> {"report"}] >>

\* the filter dropped: every rule of the table is returned
appliesToAnyType(r, type) == TRUE

\* r.appliesTo === 'all' || r.appliesTo.includes(type)
appliesToType(r, type) ==
  IF r.appliesTo = AllTypes THEN TRUE ELSE type \in r.appliesTo

getRulesForType(type) ==
  LET keep == {i \in 1..Len(ROUTED_RULES) : appliesToType(ROUTED_RULES[i], type)}
      idx == SelectIdx(keep, Len(ROUTED_RULES))
  IN [k \in 1..Len(idx) |-> ROUTED_RULES[idx[k]].rule]

ALL_RULES == [i \in 1..Len(ROUTED_RULES) |-> ROUTED_RULES[i].rule]

\* calling a rule of the table on a citation
applyRule(rule, citation) ==
  CASE rule = "checkAuthorFormat" -> checkAuthorFormat(citation)
    [] rule = "checkYearFormat" -> checkYearFormat(citation)
    [] rule = "checkTitleCase" -> checkTitleCase(citation)
    [] rule = "checkDOIFormat" -> checkDOIFormat(citation)
    [] rule = "checkAmpersand" -> checkAmpersand(citation)
    [] rule = "checkTerminalPeriod" -> checkTerminalPeriod(citation)
    [] rule = "checkDOIPresence" -> checkDOIPresence(citation)
    [] rule = "checkVolumeIssueFormat" -> checkVolumeIssueFormat(citation)
    [] rule = "checkJournalNameCase" -> checkJournalNameCase(citation)
    [] rule = "checkPageFormat" -> checkPageFormat(citation)
    [] rule = "checkConferenceNameCase" -> checkConferenceNameCase(citation)
    [] rule = "checkChapterEditors" -> checkChapterEditors(citation)
    [] rule = "checkInPrefix" -> checkInPrefix(citation)
    [] rule = "checkPublisherRequired" -> checkPublisherRequired(citation)
    [] rule = "checkEditionFormat" -> checkEditionFormat(citation)
    [] rule = "checkPublisherLocation" -> checkPublisherLocation(citation)
    [] rule = "checkFullDateRequired" -> checkFullDateRequired(citation)
    [] rule = "checkConferenceInfo" -> checkConferenceInfo(citation)
    [] rule = "checkBracketType" -> checkBracketType(citation)
    [] rule = "checkDissertationInfo" -> checkDissertationInfo(citation)
    [] rule = "checkReportNumber" -> checkReportNumber(citation)

\* for (const rule of rules) errors.push(...rule(citation))
runRules(rules, citation) ==
  Flatten([i \in 1..Len(rules) |-> applyRule(rules[i], citation)])

\* ------------------------------------------------------------------------
\* auto-fix.ts : calculateScore
\* ------------------------------------------------------------------------
Severities == {"error", "warning", "info"}

DeductionFlat(sev) == IF sev \in {"error", "warning", "info"} THEN 15 ELSE 0

\* points deducted per violation (switch in the first loop)
Deduction(sev) ==
  CASE sev = "error" -> 15
    [] sev = "warning" -> 10
    [] sev = "info" -> 5
    [] OTHER -> 0

\* twice the points added back per matched fix (7.5 / 5 / 2.5)
AddBack2(sev) ==
  CASE sev = "error" -> 15
    [] sev = "warning" -> 10
    [] sev = "info" -> 5
    [] OTHER -> 0

RECURSIVE SumSeq(_)
SumSeq(s) == IF s = <<>> THEN 0 ELSE Head(s) + SumSeq(Tail(s))

\* errors.find(e => e.rule === fix.rule && e.field === fix.field)
originalError(errors, fix) ==
  FindIndex(errors, LAMBDA e : e.rule = fix.rule /\ e.field = fix.field)

\* twice the unrounded, unclamped score
rawScore2(errors, autoFixes) ==
  200
  - 2 * SumSeq([i \in 1..Len(errors) |-> Deduction(errors[i].severity)])
  + SumSeq([k \in 1..Len(autoFixes) |->
             LET i == originalError(errors, autoFixes[k])
             IN IF i = 0 THEN 0 ELSE AddBack2(errors[i].severity)])

\* Math.round(x) = floor(x + 0.5), on a doubled argument
MathRound2(x2) == (x2 + 1) \div 2

clampNoUpper(errors, autoFixes) == Max(0, MathRound2(rawScore2(errors, autoFixes)))

calculateScore(errors, autoFixes) ==
  Max(0, Min(100, MathRound2(rawScore2(errors, autoFixes))))

\* ------------------------------------------------------------------------
\* auto-fix.ts : applyAutoFixes
\* ------------------------------------------------------------------------
\* Author objects live in a heap (a sequence of objects); a citation holds
\* references (indices) to them, so that sharing between a record and its
\* copy is visible.
View(citation, heap) ==
  [citation EXCEPT !.authors = [i \in 1..Len(citation.authors) |-> heap[citation.authors[i]]]]

\* the table with doiFormat writing to the url field
FIELD_MAP_DoiToUrl ==
  [r \in {"yearFormat", "titleCase", "doiFormat", "volumeFormat", "issueFormat", "pageFormat",
          "journalNameCase", "conferenceNameCase", "publisherLocation", "inPrefix",
          "terminalPeriod"} |->
     CASE r = "yearFormat" -> "year"
       [] r = "titleCase" -> "title"
       [] r = "doiFormat" -> "url"
       [] r = "volumeFormat" -> "volume"
       [] r = "issueFormat" -> "issue"
       [] r = "pageFormat" -> "pages"
       [] r = "journalNameCase" -> "source"
       [] r = "conferenceNameCase" -> "source"
       [] r = "publisherLocation" -> "publisher"
       [] r = "inPrefix" -> "source"
       [] r = "terminalPeriod" -> "raw"]

FIELD_MAP ==
  [r \in {"yearFormat", "titleCase", "doiFormat", "volumeFormat", "issueFormat", "pageFormat",
          "journalNameCase", "conferenceNameCase", "publisherLocation", "inPrefix",
          "terminalPeriod"} |->
     CASE r = "yearFormat" -> "year"
       [] r = "titleCase" -> "title"
       [] r = "doiFormat" -> "doi"
       [] r = "volumeFormat" -> "volume"
       [] r = "issueFormat" -> "issue"
       [] r = "pageFormat" -> "pages"
       [] r = "journalNameCase" -> "source"
       [] r = "conferenceNameCase" -> "source"
       [] r = "publisherLocation" -> "publisher"
       [] r = "inPrefix" -> "source"
       [] r = "terminalPeriod" -> "raw"]

\* the rules that have a canned remediation text
MANUAL_FIX_HINTS ==
  {"authorFormat", "yearFormat", "doiPresence", "doiFormat", "titleCase", "volumeFormat",
   "issueFormat", "pageFormat", "journalNameCase", "conferenceNameCase", "chapterEditors",
   "ampersand", "typeMismatch", "publisherRequired", "fullDateRequired", "editionFormat",
   "bracketType", "conferenceInfo", "dissertationInfo", "reportNumber", "inPrefix"}

getManualFixHint(error) ==
  IF error.rule \notin MANUAL_FIX_HINTS THEN <<"message", error.message.key>>
  ELSE IF error.rule = "authorFormat" THEN <<"hint", error.rule, error.message.key>>
  ELSE <<"hint", error.rule>>

\* the working copy shares the author objects with the record
workingCopyShared(citation, heap) == [heap |-> heap, fixed |-> citation]

\* { ...citation, authors: citation.authors.map(a => ({ ...a })) }
workingCopy(citation, heap) ==
  [heap |-> heap \o [i \in 1..Len(citation.authors) |-> heap[citation.authors[i]]],
   fixed |-> [citation EXCEPT !.authors = [i \in 1..Len(citation.authors) |-> Len(heap) + i]]]

AutoFix(rule, field, original, fixed) ==
  [rule |-> rule, field |-> field, original |-> original, fixed |-> fixed]

\* the body of the loop over the violations
fixStep(st, error) ==
  IF ~error.autoFixable
  THEN [st EXCEPT !.manualFixes =
          Append(@, [rule |-> error.rule, field |-> error.field, message |-> error.message,
                     hint |-> getManualFixHint(error)])]
  ELSE IF error.rule = "authorFormat"
  THEN IF Truthy(error.suggested) /\ error.field = "authors"
       THEN LET authorIndex == error.message.author - 1
            IN IF authorIndex >= 0 /\ authorIndex < Len(st.fixed.authors)
               THEN LET ref == st.fixed.authors[authorIndex + 1]
                    IN [st EXCEPT
                          !.heap = [@ EXCEPT ![ref].initials = error.suggested],
                          !.autoFixes = Append(@, AutoFix("authorFormat", "authors",
                                                          st.heap[ref].initials,
                                                          error.suggested))]
               ELSE st
       ELSE st
  ELSE IF error.rule = "ampersand"
  THEN [st EXCEPT !.autoFixes = Append(@, AutoFix("ampersand", "authors", <<"and">>, <<"&">>))]
  ELSE IF error.rule \in DOMAIN FIELD_MAP /\ Truthy(error.suggested)
  THEN LET field == FIELD_MAP[error.rule]
       IN [st EXCEPT
             !.fixed = [@ EXCEPT ![field] = error.suggested],
             !.autoFixes = Append(@, AutoFix(error.rule, field,
                                             IF Truthy(st.fixed[field]) THEN st.fixed[field]
                                             ELSE <<>>,
                                             error.suggested))]
  ELSE st

RECURSIVE fixLoop(_, _)
fixLoop(st, errors) ==
  IF errors = <<>> THEN st ELSE fixLoop(fixStep(st, Head(errors)), Tail(errors))

\* the corrected record, the heap after the call, the applied fixes and the hints
applyAutoFixes(citation, heap, errors) ==
  LET copy == workingCopy(citation, heap)
  IN fixLoop([heap |-> copy.heap, fixed |-> copy.fixed,
              autoFixes |-> <<>>, manualFixes |-> <<>>], errors)

\* ------------------------------------------------------------------------
\* parser.ts : parseCitation. A citation text is a sequence of tokens; one
\* space separates two adjacent words, all other white space is explicit,
\* and a period followed by a space is always the token ". "
\* ------------------------------------------------------------------------
Author(lastName, initials, isGroupAuthor) ==
  [lastName |-> lastName, initials |-> initials, isGroupAuthor |-> isGroupAuthor]

Kim == Author(<<"Kim">>, <<"B", ".", " ", "Y", ".">>, FALSE)
Lee == Author(<<"Lee">>, <<"Y", ".">>, FALSE)

\* a record with the required fields only, as the parser initialises it; an
\* absent editors list is the empty list (every reader tests its length too)
emptyCitation(raw) ==
  [raw |-> raw, authors |-> <<>>, year |-> <<>>, title |-> <<>>, source |-> <<>>,
   type |-> "unknown",
   volume |-> undefined, issue |-> undefined, pages |-> undefined, doi |-> undefined,
   url |-> undefined, publisher |-> undefined, editors |-> <<>>,
   edition |-> undefined, fullDate |-> undefined, yearSuffix |-> undefined,
   reportNumber |-> undefined, bracketType |-> undefined, conferenceName |-> undefined,
   institution |-> undefined, databaseName |-> undefined, isGroupAuthor |-> undefined]


\* the least element of a set of indices, 0 when there is none
FirstOf(S) == IF S = {} THEN 0 ELSE CHOOSE i \in S : \A j \in S : i <= j

\* s without its tokens i..j
RemoveRange(s, i, j) == SubSeq(s, 1, i - 1) \o SubSeq(s, j + 1, Len(s))

\* the end of the longest run of tokens of class C that starts at i (i - 1
\* when s[i] is not of the class)
RECURSIVE RunEnd(_, _, _)
RunEnd(s, i, C) == IF i <= Len(s) /\ s[i] \in C THEN RunEnd(s, i + 1, C) ELSE i - 1

\* [a-z] after the year, and [A-Z][a-z]+(?:\s+\d{1,2}(?:[-]\d{1,2})?)?
YearSuffixToks == {"a"}
DateToks == {"March 15"}

\* the length in tokens of a match of yearRegex at i, 0 without one:
\* \((n\.d\.|in press|\d{4}[a-z]?(?:,\s*(?:date))?)\)
yearMatchLen(raw, i) ==
  LET at(k) == IF i + k <= Len(raw) THEN raw[i + k] ELSE ""
      sfx == IF at(2) \in YearSuffixToks THEN 1 ELSE 0
      date == IF at(2 + sfx) = ", " /\ at(3 + sfx) \in DateToks THEN 2 ELSE 0
  IN IF at(0) # "(" THEN 0
     ELSE IF at(1) \in {"n.d.", "in press"} THEN (IF at(2) = ")" THEN 3 ELSE 0)
     ELSE IF at(1) \in FourDigitToks
     THEN (IF at(2 + sfx + date) = ")" THEN 3 + sfx + date ELSE 0)
     ELSE 0

\* raw.match(yearRegex): the index of the leftmost match, 0 without one
yearMatch(raw) == FirstOf({i \in 1..Len(raw) : yearMatchLen(raw, i) > 0})

\* initials.match(/[A-Z]/g).map(l => `${l}.`).join(' ')
RECURSIVE normalizeInitials(_)
normalizeInitials(initials) ==
  LET letters == SelectSeq(initials, LAMBDA t : t \in UpperChars)
  IN IF letters = <<>> THEN <<>>
     ELSE IF Len(letters) = 1 THEN <<letters[1], ".">>
     ELSE <<letters[1], ".", " ">> \o normalizeInitials(Tail(letters))

\* [A-Za-z...'\-]+ : the tokens made of name characters only
NameToks == {"Kim", "Lee", "Sage", "Press", "Agency", "ProQuest", "Berlin", "MIT"}
            \cup UpperChars \cup Words

\* the end of ((?:[A-Z]\.\s*)+) matched from j (j - 1 without a match)
RECURSIVE initialsEnd(_, _)
initialsEnd(part, j) ==
  IF j + 1 <= Len(part) /\ part[j] \in UpperChars /\ part[j + 1] \in {".", ". "}
  THEN LET e == RunEnd(part, j + 2, {" "})
       IN Max(e, initialsEnd(part, e + 1))
  ELSE j - 1

\* authorRegex.exec(part) from index i on: every match, left to right
RECURSIVE execAuthors(_, _)
execAuthors(part, i) ==
  IF i > Len(part) THEN <<>>
  ELSE IF /\ i + 1 <= Len(part)
          /\ part[i] \in NameToks
          /\ part[i + 1] \in {", ", ","}
          /\ initialsEnd(part, RunEnd(part, i + 2, {" "}) + 1) > RunEnd(part, i + 2, {" "}) + 1
  THEN LET from == RunEnd(part, i + 2, {" "}) + 1
           to == initialsEnd(part, from)
       IN <<[lastName |-> <<part[i]>>,
             initials |-> normalizeInitials(Trim(SubSeq(part, from, to))),
             isGroupAuthor |-> FALSE]>>
          \o execAuthors(part, to + 1)
  ELSE execAuthors(part, i + 1)

\* block.split(/\s*&\s*/)
RECURSIVE splitAmpersand(_)
splitAmpersand(block) ==
  LET i == FirstOf({k \in 1..Len(block) : block[k] = "& "})
  IN IF i = 0 THEN <<block>>
     ELSE <<TrimRight(SubSeq(block, 1, i - 1))>>
          \o splitAmpersand(SubSeq(block, i + 1, Len(block)))

\* no text of the model holds a typographic apostrophe, "et al.", an ellipsis
\* or a name particle (van, de, ...), so those branches are not taken
parseAuthors(authorBlock) ==
  LET block == Trim(authorBlock)
      parts == splitAmpersand(block)
      authors == Flatten([k \in 1..Len(parts) |-> execAuthors(parts[k], 1)])
      \* block.replace(/\.\s*$/, '').trim()
      groupName == IF block # <<>> /\ Last(block) = "." THEN Trim(Front(block)) ELSE block
  IN IF authors = <<>> /\ block # <<>> /\ groupName # <<>>
     THEN <<[lastName |-> groupName, initials |-> <<>>, isGroupAuthor |-> TRUE]>>
     ELSE authors

\* the end of the longest run of tokens outside class C that starts at i
RECURSIVE RunEndNot(_, _, _)
RunEndNot(s, i, C) == IF i <= Len(s) /\ s[i] \notin C THEN RunEndNot(s, i + 1, C) ELSE i - 1

\* a run of non-space characters that stops inside the token ". " takes its
\* period: the run's tokens, and the text with the run i..e taken out
runWithPeriod(s, i, e) ==
  IF e + 1 <= Len(s) /\ s[e + 1] = ". "
  THEN [taken |-> Append(SubSeq(s, i, e), "."),
        rest |-> SubSeq(s, 1, i - 1) \o <<" ">> \o SubSeq(s, e + 2, Len(s))]
  ELSE [taken |-> SubSeq(s, i, e), rest |-> RemoveRange(s, i, e)]

\* [\w./-]+ : the tokens a DOI path is made of
DoiPathToks == DoiNumberToks \cup DigitToks \cup FourDigitToks \cup {".", Hyphen}

\* s.replace(/\.$/, '')
dropFinalPeriod(s) == IF s # <<>> /\ Last(s) = "." THEN Front(s) ELSE s

\* s.replace(/^\.\s*/, '')
dropLeadingPeriod(s) == IF s # <<>> /\ Head(s) \in {".", ". "} THEN TrimLeft(Tail(s)) ELSE s

\* 1. DOI as a resolver URL, else with the doi: prefix; then a plain URL
extractDoi(st) ==
  LET rem == st.rem
      u == FirstOf({k \in 1..Len(rem) :
                      /\ rem[k] = ResolverPrefix
                      /\ k < Len(rem)
                      /\ rem[k + 1] \in DoiPathToks \cup {". "}})
      ur == runWithPeriod(rem, u + 1, RunEnd(rem, u + 1, DoiPathToks))
      d == FirstOf({k \in 1..Len(rem) :
                      /\ rem[k] = "doi:"
                      /\ RunEnd(rem, k + 1, {" "}) < Len(rem)
                      /\ rem[RunEnd(rem, k + 1, {" "}) + 1] \in DoiNumberToks})
      dstart == RunEnd(rem, d + 1, {" "}) + 1
      dr == runWithPeriod(rem, dstart, RunEndNot(rem, dstart, SpaceToks))
  IN IF u # 0
     THEN [c |-> [st.c EXCEPT !.doi = ur.taken, !.url = <<ResolverPrefix>> \o ur.taken],
           rem |-> Trim(RemoveRange(ur.rest, u, u))]
     ELSE IF d # 0
     THEN [c |-> [st.c EXCEPT !.doi = dropFinalPeriod(dr.taken)],
           rem |-> Trim(RemoveRange(dr.rest, d, dstart - 1))]
     ELSE st

extractUrl(st) ==
  LET rem == st.rem
      u == FirstOf({k \in 1..Len(rem) : rem[k] \in UrlOpenToks})
      ur == runWithPeriod(rem, u, RunEndNot(rem, u, SpaceToks))
  IN IF ~Truthy(st.c.doi) /\ u # 0
     THEN [c |-> [st.c EXCEPT !.url = ur.taken], rem |-> Trim(ur.rest)]
     ELSE st

\* st|nd|rd|th
OrdinalToks == {"th", "nd"}

\* the index of the first match of /\((\d+)(?:st|nd|rd|th)\s+ed\.\)/i
editionMatch(s) ==
  FirstOf({k \in 1..(Len(s) - 3) :
             /\ s[k] = "(" /\ s[k + 1] \in DigitToks
             /\ s[k + 2] \in OrdinalToks /\ s[k + 3] = " ed.)"})

extractEdition(st) ==
  LET k == editionMatch(st.rem)
  IN IF k # 0
     THEN [c |-> [st.c EXCEPT !.edition = <<st.rem[k + 1]>>],
           rem |-> Trim(RemoveRange(st.rem, k, k + 3))]
     ELSE st

\* /paper presentation|poster session|symposium|conference session/
ConferenceDescriptorToks == {"Paper presentation"}
\* /doctoral dissertation|master'?s thesis/
DissertationDescriptorToks == {"Doctoral dissertation"}

\* 2. [BracketType]
extractBracket(st) ==
  LET rem == st.rem
      i == FirstOf({k \in 1..Len(rem) :
                      rem[k] = "[" /\ \E j \in (k + 2)..Len(rem) : rem[j] = "]"})
      j == FirstOf({k \in (i + 2)..Len(rem) : rem[k] = "]"})
      bracket == SubSeq(rem, i + 1, j - 1)
      isConference == \E k \in 1..Len(bracket) : bracket[k] \in ConferenceDescriptorToks
      isDissertation == \E k \in 1..Len(bracket) : bracket[k] \in DissertationDescriptorToks
      comma == FirstOf({k \in 1..(Len(bracket) - 1) : bracket[k] = ", "})
      c1 == [st.c EXCEPT !.bracketType = bracket]
      c2 == IF isConference THEN [c1 EXCEPT !.type = "conference"] ELSE c1
      c3 == IF isDissertation THEN [c2 EXCEPT !.type = "dissertation"] ELSE c2
      c4 == IF isDissertation /\ comma # 0
            THEN [c3 EXCEPT !.institution = Trim(SubSeq(bracket, comma + 1, Len(bracket)))]
            ELSE c3
  IN IF i # 0 THEN [c |-> c4, rem |-> Trim(RemoveRange(rem, i, j))] ELSE st

\* the tokens that hold a closing parenthesis
CloseParenToks == {")", " ed.)", "(Eds.)"}

\* 3. (Report No. X)
extractReportNumber(st) ==
  LET rem == st.rem
      i == FirstOf({k \in 1..Len(rem) :
                      /\ rem[k] = "(Report No. "
                      /\ RunEndNot(rem, k + 1, CloseParenToks) > k
                      /\ RunEndNot(rem, k + 1, CloseParenToks) < Len(rem)
                      /\ rem[RunEndNot(rem, k + 1, CloseParenToks) + 1] = ")"})
      j == RunEndNot(rem, i + 1, CloseParenToks) + 1
      c1 == [st.c EXCEPT !.reportNumber = Trim(SubSeq(rem, i + 1, j - 1))]
  IN IF i # 0
     THEN [c |-> IF c1.type = "unknown" THEN [c1 EXCEPT !.type = "report"] ELSE c1,
           rem |-> Trim(RemoveRange(rem, i, j))]
     ELSE st

\* the tokens that hold an opening parenthesis only; CloseParenToks apart
\* from "(Eds.)" hold a closing one only
OpenParenToks == {"(", "(Report No. ", "(pp. "}

RECURSIVE parenDepth(_, _)
\* parenDepth of splitByPeriods after the first k tokens
parenDepth(s, k) ==
  IF k = 0 THEN 0
  ELSE parenDepth(s, k - 1)
       + (IF s[k] \in OpenParenToks THEN 1 ELSE 0)
       - (IF s[k] \in CloseParenToks \ {"(Eds.)"} THEN 1 ELSE 0)

\* the tokens that hold a period followed by a space, and what they leave in
\* the segment they end
SegmentEndOf == [t \in {". ", VolPrefix, NoPrefix, PpPrefix} |->
                   CASE t = ". " -> <<>> [] t = VolPrefix -> <<"Vol">>
                     [] t = NoPrefix -> <<"No">> [] t = PpPrefix -> <<"pp">>]

\* splitByPeriods(text): segments[0] and segments.slice(1).join('. '), which
\* puts back every later boundary as it was; boundary is 0 when the text is
\* one segment
splitByPeriods(text) ==
  LET b == FirstOf({k \in 1..Len(text) :
                      text[k] \in DOMAIN SegmentEndOf /\ parenDepth(text, k - 1) = 0})
  IN IF b = 0 THEN [boundary |-> 0, first |-> Trim(text), rest |-> <<>>]
     ELSE [boundary |-> b,
           first |-> Trim(SubSeq(text, 1, b - 1) \o SegmentEndOf[text[b]]),
           rest |-> Trim(SubSeq(text, b + 1, Len(text)))]

\* [\d-]+ with both dashes
PageRunToks == DigitToks \cup {Hyphen, EnDash}

\* the tokens that can stand for ,?\s+ and what they leave before the comma
SeparatorLeft == [t \in {", ", " ", ". ", VolPrefix, NoPrefix, PpPrefix} |->
                    CASE t = ", " -> <<>> [] t = " " -> <<>> [] t = ". " -> <<".">>
                      [] t = VolPrefix -> <<"Vol.">> [] t = NoPrefix -> <<"No.">>
                      [] t = PpPrefix -> <<"pp.">>]

\* the index after an optional ,?\s* at k
skipSeparator(s, k) == IF k <= Len(s) /\ s[k] \in {", ", " ", ","} THEN k + 1 ELSE k

\* ([\d-]+)? at k: the run, undefined without one
pageRun(s, k) ==
  IF RunEnd(s, k, PageRunToks) >= k THEN SubSeq(s, k, RunEnd(s, k, PageRunToks))
  ELSE undefined

NoMatch == [ok |-> FALSE]

\* the tails of the five volume patterns, matched at k (after ^(.+?),?\s+)
\* Vol\.?\s*(\d+),?\s*No\.?\s*(\d+),?\s*pp\.?\s*([\d-]+)?
tailVolNoPp(s, k) ==
  LET n == skipSeparator(s, k + 2)
      q == skipSeparator(s, n + 2)
  IN IF /\ q <= Len(s) /\ s[k] = VolPrefix /\ s[k + 1] \in DigitToks
        /\ s[n] = NoPrefix /\ s[n + 1] \in DigitToks /\ s[q] = PpPrefix
     THEN [ok |-> TRUE, volume |-> <<VolPrefix, s[k + 1]>>, issue |-> <<NoPrefix, s[n + 1]>>,
           pages |-> IF pageRun(s, q + 1) # undefined THEN <<PpPrefix>> \o pageRun(s, q + 1)
                     ELSE undefined]
     ELSE NoMatch

\* Vol\.?\s*(\d+)\((\d+)\),?\s*(?:pp\.?\s*)?([\d-]+)?
tailVolIssue(s, k) ==
  LET n == skipSeparator(s, k + 5)
      q == IF n <= Len(s) /\ s[n] = PpPrefix THEN n + 1 ELSE n
  IN IF /\ k + 4 <= Len(s) /\ s[k] = VolPrefix /\ s[k + 1] \in DigitToks
        /\ s[k + 2] = "(" /\ s[k + 3] \in DigitToks /\ s[k + 4] = ")"
     THEN [ok |-> TRUE, volume |-> <<VolPrefix, s[k + 1]>>, issue |-> <<s[k + 3]>>,
           pages |-> IF pageRun(s, q) # undefined THEN <<PpPrefix>> \o pageRun(s, q)
                     ELSE undefined]
     ELSE NoMatch

\* Vol\.?\s*(\d+),?\s*pp\.?\s*([\d-]+)?
tailVolPp(s, k) ==
  LET q == skipSeparator(s, k + 2)
  IN IF /\ q <= Len(s) /\ s[k] = VolPrefix /\ s[k + 1] \in DigitToks /\ s[q] = PpPrefix
     THEN [ok |-> TRUE, volume |-> <<VolPrefix, s[k + 1]>>, issue |-> undefined,
           pages |-> IF pageRun(s, q + 1) # undefined THEN <<PpPrefix>> \o pageRun(s, q + 1)
                     ELSE undefined]
     ELSE NoMatch

\* (\d+)\((\d+)\),?\s*([\d-]+)?
tailIssue(s, k) ==
  IF /\ k + 3 <= Len(s) /\ s[k] \in DigitToks
     /\ s[k + 1] = "(" /\ s[k + 2] \in DigitToks /\ s[k + 3] = ")"
  THEN [ok |-> TRUE, volume |-> <<s[k]>>, issue |-> <<s[k + 2]>>,
        pages |-> pageRun(s, skipSeparator(s, k + 4))]
  ELSE NoMatch

\* (\d+),?\s*([\d-]+)?
tailVolume(s, k) ==
  IF k <= Len(s) /\ s[k] \in DigitToks
  THEN [ok |-> TRUE, volume |-> <<s[k]>>, issue |-> undefined,
        pages |-> pageRun(s, skipSeparator(s, k + 1))]
  ELSE NoMatch

\* ^(.+?),?\s+ followed by a tail that matches at the positions K: the
\* separator of the leftmost match
volumeMatchAt(s, K) ==
  FirstOf({k \in K : /\ k \in 2..Len(s) /\ s[k - 1] \in DOMAIN SeparatorLeft
                     /\ (k > 2 \/ SeparatorLeft[s[k - 1]] # <<>>)})

\* extract of the volume patterns: source = m[1].trim(), type = 'journal'
volumeExtract(c, s, k, m) ==
  [c EXCEPT !.source = Trim(SubSeq(s, 1, k - 2) \o SeparatorLeft[s[k - 1]]),
            !.volume = m.volume, !.issue = m.issue, !.pages = m.pages,
            !.type = "journal"]

\* ^In\s+ : the index where the text after it begins, 0 without a match
inPrefixEnd(s) ==
  IF Len(s) >= 2 /\ s[1] \in {"In", "in"}
  THEN (IF s[2] \in NameToks THEN 2
        ELSE IF s[2] = " " /\ RunEnd(s, 2, {" "}) < Len(s) THEN RunEnd(s, 2, {" "}) + 1
        ELSE 0)
  ELSE 0

\* \(pp\.\s*([\d-]+)\) at p, followed by \.\s*(.+)$ when a publisher is asked for
pagesTailAt(s, p, withPublisher) ==
  LET r == RunEnd(s, p + 1, PageRunToks)
  IN /\ p <= Len(s) /\ s[p] = "(pp. "
     /\ r > p /\ r < Len(s) /\ s[r + 1] = ")"
     /\ withPublisher =>
          /\ r + 2 <= Len(s) /\ s[r + 2] \in {".", ". "}
          /\ RunEnd(s, r + 3, {" "}) < Len(s)

\* m.trim().replace(/\.$/, '').split(',')[0].trim()
publisherOf(m) ==
  LET t == dropFinalPeriod(Trim(m))
      comma == FirstOf({k \in 1..Len(t) : t[k] \in {", ", ","}})
  IN IF comma = 0 THEN Trim(t) ELSE Trim(SubSeq(t, 1, comma - 1))

\* the chapter patterns: [ok, source, pages, publisher]
\* ^In\s+(.+?)\s*\((?:Eds?\.|Trans\.)\),?\s*(.+?)\s*\(pp\.\s*([\d-]+)\)\.\s*(.+)$
inEditorsMatch(s) ==
  LET from == inPrefixEnd(s)
      hits == {<<e, q>> \in (1..Len(s)) \X (1..Len(s)) :
                 /\ from # 0 /\ e > from /\ s[e] = "(Eds.)"
                 /\ TrimRight(SubSeq(s, from, e - 1)) # <<>>
                 /\ q > skipSeparator(s, e + 1)
                 /\ pagesTailAt(s, q, TRUE)}
      e == FirstOf({h[1] : h \in hits})
      q == FirstOf({h[2] : h \in {x \in hits : x[1] = e}})
      r == RunEnd(s, q + 1, PageRunToks)
  IN IF hits = {} THEN NoMatch
     ELSE [ok |-> TRUE,
           source |-> <<"In">> \o TrimRight(SubSeq(s, from, e - 1))
                      \o <<" ", "(Ed.)", ", ">>
                      \o Trim(SubSeq(s, skipSeparator(s, e + 1), q - 1)),
           pages |-> Trim(SubSeq(s, q + 1, r)),
           publisher |-> publisherOf(SubSeq(s, r + 3, Len(s)))]

\* ^In\s+(.+?)\s*\(pp\.\s*([\d-]+)\)\.\s*(.+)$ , and the same without the
\* publisher: ^In\s+(.+?)\s*\(pp\.\s*([\d-]+)\)
inPagesMatch(s, withPublisher) ==
  LET from == inPrefixEnd(s)
      q == FirstOf({k \in 1..Len(s) : from # 0 /\ k > from /\ pagesTailAt(s, k, withPublisher)
                                       /\ TrimRight(SubSeq(s, from, k - 1)) # <<>>})
      r == RunEnd(s, q + 1, PageRunToks)
  IN IF q = 0 THEN NoMatch
     ELSE [ok |-> TRUE,
           source |-> <<"In">> \o Trim(SubSeq(s, from, q - 1)),
           pages |-> Trim(SubSeq(s, q + 1, r)),
           publisher |-> IF withPublisher THEN publisherOf(SubSeq(s, r + 3, Len(s)))
                         ELSE undefined]

chapterExtract(c, m) ==
  LET c1 == [c EXCEPT !.source = m.source, !.pages = m.pages, !.type = "chapter"]
  IN IF m.publisher = undefined THEN c1 ELSE [c1 EXCEPT !.publisher = m.publisher]

\* for (const pattern of SOURCE_PATTERNS): the first pattern that matches
\* extracts; [matched, c]
SOURCE_PATTERNS(c, s) ==
  LET k3 == volumeMatchAt(s, {k \in 2..Len(s) : tailVolNoPp(s, k).ok})
      k4 == volumeMatchAt(s, {k \in 2..Len(s) : tailVolIssue(s, k).ok})
      k5 == volumeMatchAt(s, {k \in 2..Len(s) : tailVolPp(s, k).ok})
      k6 == volumeMatchAt(s, {k \in 2..Len(s) : tailIssue(s, k).ok})
      k7 == volumeMatchAt(s, {k \in 2..Len(s) : tailVolume(s, k).ok})
  IN
  IF inEditorsMatch(s).ok THEN [matched |-> TRUE, c |-> chapterExtract(c, inEditorsMatch(s))]
  ELSE IF inPagesMatch(s, TRUE).ok
  THEN [matched |-> TRUE, c |-> chapterExtract(c, inPagesMatch(s, TRUE))]
  ELSE IF inPagesMatch(s, FALSE).ok
  THEN [matched |-> TRUE, c |-> chapterExtract(c, inPagesMatch(s, FALSE))]
  ELSE IF k3 # 0 THEN [matched |-> TRUE, c |-> volumeExtract(c, s, k3, tailVolNoPp(s, k3))]
  ELSE IF k4 # 0 THEN [matched |-> TRUE, c |-> volumeExtract(c, s, k4, tailVolIssue(s, k4))]
  ELSE IF k5 # 0 THEN [matched |-> TRUE, c |-> volumeExtract(c, s, k5, tailVolPp(s, k5))]
  ELSE IF k6 # 0 THEN [matched |-> TRUE, c |-> volumeExtract(c, s, k6, tailIssue(s, k6))]
  ELSE IF k7 # 0 THEN [matched |-> TRUE, c |-> volumeExtract(c, s, k7, tailVolume(s, k7))]
  ELSE [matched |-> FALSE, c |-> c]

\* /Press|Publisher|Books/
BookKeywordToks == {"Press"}

\* the book branch of parseRemainingElements
bookExtract(c, s) ==
  LET k == editionMatch(s)
      \* ^(.+?)\s*\(\d+(?:st|nd|rd|th)\s+ed\.\)\.\s*(.+?)\.?\s*$
      edFull == /\ k > 1 /\ k + 4 <= Len(s) /\ s[k + 4] \in {".", ". "}
                /\ dropFinalPeriod(Trim(SubSeq(s, k + 5, Len(s)))) # <<>>
      \* ^(.+?)\.\s*(.+?)\.?\s*$
      dot == FirstOf({i \in 2..Len(s) :
                        /\ s[i] \in {".", ". "}
                        /\ Trim(SubSeq(s, i + 1, Len(s))) # <<>>})
      c1 == IF k # 0 THEN [c EXCEPT !.edition = <<s[k + 1]>>] ELSE c
      c2 == IF k # 0
            THEN (IF edFull
                  THEN [c1 EXCEPT !.source = Trim(SubSeq(s, 1, k - 1)),
                                  !.publisher =
                                     dropFinalPeriod(dropFinalPeriod(Trim(SubSeq(s, k + 5, Len(s)))))]
                  ELSE [c1 EXCEPT !.source = s])
            ELSE IF Truthy(c.edition)
            \* ^(.+?)\.?\s*$ , then .trim().replace(/\.$/, '')
            THEN [c1 EXCEPT !.publisher = dropFinalPeriod(Trim(dropFinalPeriod(TrimRight(s)))),
                            !.source = c.title]
            ELSE IF dot # 0
            THEN [c1 EXCEPT !.source = Trim(SubSeq(s, 1, dot - 1)),
                            !.publisher =
                               dropFinalPeriod(dropFinalPeriod(Trim(SubSeq(s, dot + 1, Len(s)))))]
            ELSE [c1 EXCEPT !.source = s]
  IN [c2 EXCEPT !.type = "book"]

\* the part of parseRemainingElements that reads the source segment
sourceExtract(c, sourceSegment) ==
  LET name == Trim(dropFinalPeriod(TrimRight(dropLeadingPeriod(sourceSegment))))
      cleanSource == Trim(dropFinalPeriod(TrimRight(sourceSegment)))
      pat == SOURCE_PATTERNS(c, sourceSegment)
      isBook == \/ editionMatch(sourceSegment) # 0
                \/ Truthy(c.edition)
                \/ \E i \in 1..Len(sourceSegment) : sourceSegment[i] \in BookKeywordToks
      c1 == [c EXCEPT !.source = Trim(sourceSegment)]
  IN IF c.type = "conference"
     THEN (IF name # <<>> THEN [c EXCEPT !.conferenceName = name] ELSE c)
     ELSE IF c.type = "dissertation"
     THEN (IF name # <<>> THEN [c EXCEPT !.databaseName = name] ELSE c)
     ELSE IF c.type = "report"
     THEN (IF cleanSource # <<>>
           THEN [c EXCEPT !.publisher = cleanSource, !.source = cleanSource] ELSE c)
     ELSE IF pat.matched THEN pat.c
     ELSE IF isBook THEN bookExtract(c, sourceSegment)
     ELSE IF Truthy(c1.volume) \/ Truthy(c1.issue) THEN [c1 EXCEPT !.type = "journal"]
     ELSE IF Truthy(c1.url) /\ ~Truthy(c1.doi) THEN [c1 EXCEPT !.type = "web"]
     ELSE c1

\* the extractions that come before the split into segments
preExtract(afterYear, citation) ==
  extractReportNumber(extractBracket(extractEdition(extractUrl(extractDoi(
    [c |-> citation, rem |-> Trim(dropLeadingPeriod(afterYear))])))))

\* the final fallback; every early return leaves a type other than unknown
webFallback(c) ==
  IF c.type = "unknown" /\ Truthy(c.url) /\ ~Truthy(c.doi) THEN [c EXCEPT !.type = "web"] ELSE c

\* 4. the split into segments: the title, then the source segment
segmentsExtract(st) ==
  LET segments == splitByPeriods(st.rem)
      c1 == IF st.rem # <<>> THEN [st.c EXCEPT !.title = segments.first] ELSE st.c
  IN webFallback(IF segments.boundary # 0 THEN sourceExtract(c1, segments.rest) ELSE c1)

parseRemainingElements(afterYear, citation) == segmentsExtract(preExtract(afterYear, citation))

\* the year fields set from yearMatch[1]
yearExtract(citation, fullDateStr) ==
  IF fullDateStr \in {<<"n.d.">>, <<"in press">>} THEN [citation EXCEPT !.year = fullDateStr]
  ELSE LET c1 == [citation EXCEPT !.year = <<fullDateStr[1]>>]
           c2 == IF Len(fullDateStr) >= 2 /\ fullDateStr[2] \in YearSuffixToks
                 THEN [c1 EXCEPT !.yearSuffix = <<fullDateStr[2]>>] ELSE c1
       IN IF IncludesTok(fullDateStr, ", ") THEN [c2 EXCEPT !.fullDate = fullDateStr] ELSE c2

fullDateStrOf(raw) == SubSeq(raw, yearMatch(raw) + 1,
                             yearMatch(raw) + yearMatchLen(raw, yearMatch(raw)) - 2)
beforeYearOf(raw) == Trim(SubSeq(raw, 1, yearMatch(raw) - 1))
afterYearOf(raw) == Trim(SubSeq(raw, yearMatch(raw) + yearMatchLen(raw, yearMatch(raw)), Len(raw)))

\* citation.authors = parseAuthors(beforeYear), then the group author flag
authorsExtract(citation, beforeYear) ==
  LET authors == parseAuthors(beforeYear)
  IN IF \E k \in 1..Len(authors) : authors[k].isGroupAuthor
     THEN [citation EXCEPT !.authors = authors, !.isGroupAuthor = <<"true">>]
     ELSE [citation EXCEPT !.authors = authors]

\* parseCitation(text) when nothing fails inside the try block
parseCitation(text) ==
  LET raw == Trim(text)
      citation == emptyCitation(raw)
  IN IF yearMatch(raw) = 0 THEN [citation EXCEPT !.title = raw]
     ELSE parseRemainingElements(afterYearOf(raw),
            authorsExtract(yearExtract(citation, fullDateStrOf(raw)), beforeYearOf(raw)))

\* /\n\s*\n/ at position i: the index of the last line break of the white
\* space run that starts at the line break i, 0 when it holds no second one
blankLineEnd(text, i) ==
  LET j == RunEnd(text, i, WhiteSpace)
      breaks == {m \in (i + 1)..j : text[m] = "\n"}
  IN IF text[i] = "\n" /\ breaks # {} THEN CHOOSE m \in breaks : \A n \in breaks : n <= m
     ELSE 0

RECURSIVE splitBlankLines(_, _, _)
\* text.split(/\n\s*\n/) from position i on, cur being the piece under way
splitBlankLines(text, i, cur) ==
  IF i > Len(text) THEN <<cur>>
  ELSE IF blankLineEnd(text, i) # 0
  THEN <<cur>> \o splitBlankLines(text, blankLineEnd(text, i) + 1, <<>>)
  ELSE splitBlankLines(text, i + 1, Append(cur, text[i]))

\* the pieces trimmed, the empty ones kept
citationTextsUnfiltered(text) ==
  LET pieces == splitBlankLines(text, 1, <<>>)
  IN [k \in 1..Len(pieces) |-> Trim(pieces[k])]

\* the trimmed non-empty pieces, in order
citationTexts(text) ==
  LET pieces == splitBlankLines(text, 1, <<>>)
      trimmed == [k \in 1..Len(pieces) |-> Trim(pieces[k])]
      kept == SelectIdx({k \in 1..Len(trimmed) : Len(trimmed[k]) > 0}, Len(trimmed))
  IN [k \in 1..Len(kept) |-> trimmed[kept[k]]]

parseCitations(text) ==
  LET texts == citationTexts(text)
  IN [k \in 1..Len(texts) |-> parseCitation(texts[k])]

\* ------------------------------------------------------------------------
\* Scoring harness: calculateScore applied to arbitrary lists
\* ------------------------------------------------------------------------
ScoreRules == {"titleCase", "pageFormat"}

ScoreViolation(r, sev) ==
  [rule |-> r, field |-> "f", severity |-> sev]

ScoreViolations == {ScoreViolation(r, sev) : r \in ScoreRules, sev \in Severities}

\* a fix names a rule and a field; "pageCompletion" matches no violation
ScoreFixes == {[rule |-> r, field |-> "f"] : r \in ScoreRules \cup {"pageCompletion"}}

ScoreInit ==
  /\ \E mixed \in SeqsUpTo(ScoreViolations, MaxMixed), n \in 0..MaxBulk :
       sc_errors = mixed \o Repeat(ScoreViolation("test", "error"), n)
  /\ sc_fixes \in SeqsUpTo(ScoreFixes, MaxScoreFixes)
  /\ sc_score = -1
  /\ sc_pc = "input"

Score ==
  /\ sc_pc = "input"
  /\ sc_score' = calculateScore(sc_errors, sc_fixes)
  /\ sc_pc' = "scored"
  /\ UNCHANGED <<sc_errors, sc_fixes>>
  /\ UNCHANGED exceptScore

ScoreIdle ==
  /\ sc_errors = <<>>
  /\ sc_fixes = <<>>
  /\ sc_score = -1
  /\ sc_pc = "idle"

\* ------------------------------------------------------------------------
\* RateLimiter: the enrichment calls of concurrent validateCitation calls
\* ------------------------------------------------------------------------
maxConcurrent == 3

Callers == 1..MaxCallers

\* the loop test taken one slot too late
limiterFullAbove(running) == running > maxConcurrent

\* while (this.running >= this.maxConcurrent)
limiterFull(running) == running >= maxConcurrent

LimiterInit ==
  /\ rl_running = 0
  /\ rl_pc = [c \in Callers |-> "start"]

LimiterIdle ==
  /\ rl_running = 0
  /\ rl_pc = [c \in Callers |-> "idle"]

\* the loop test and what follows it up to the next await: either the caller
\* sleeps 100 ms, or it takes a slot and calls fn()
enterOrSleep(c) ==
  IF limiterFull(rl_running)
  THEN /\ rl_pc' = [rl_pc EXCEPT ![c] = "sleeping"]
       /\ UNCHANGED rl_running
  ELSE /\ rl_pc' = [rl_pc EXCEPT ![c] = "inFlight"]
       /\ rl_running' = rl_running + 1

\* validateCitation reaches rateLimiter.execute(() => searchByTitle(title))
Execute(c) ==
  /\ rl_pc[c] = "start"
  /\ enterOrSleep(c)
  /\ UNCHANGED exceptLimiter

\* validateCitation skips enrichment: useCrossRef is false, or the parsed
\* record has no title or no author
SkipEnrichment(c) ==
  /\ rl_pc[c] = "start"
  /\ rl_pc' = [rl_pc EXCEPT ![c] = "skipped"]
  /\ UNCHANGED rl_running
  /\ UNCHANGED exceptLimiter

\* the 100 ms timer of a sleeping caller fires and the loop test is repeated
Wake(c) ==
  /\ rl_pc[c] = "sleeping"
  /\ enterOrSleep(c)
  /\ UNCHANGED exceptLimiter

\* fn() settles, and the slot is given back only after a call that resolved
SettleWithoutFinally(c) ==
  /\ rl_pc[c] = "inFlight"
  /\ \E outcome \in {"resolved", "rejected"} :
       /\ rl_pc' = [rl_pc EXCEPT ![c] = outcome]
       /\ rl_running' = IF outcome = "resolved" THEN rl_running - 1 ELSE rl_running
  /\ UNCHANGED exceptLimiter

\* fn() settles; finally { this.running-- } runs whether it resolved or threw
Settle(c) ==
  /\ rl_pc[c] = "inFlight"
  /\ \E outcome \in {"resolved", "rejected"} : rl_pc' = [rl_pc EXCEPT ![c] = outcome]
  /\ rl_running' = rl_running - 1
  /\ UNCHANGED exceptLimiter

LimiterNext == \E c \in Callers : Execute(c) \/ SkipEnrichment(c) \/ Wake(c) \/ Settle(c)

\* the module-level rateLimiter outlives every call: a caller whose call has
\* returned calls validateCitation again
CallAgain(c) ==
  /\ rl_pc[c] \in {"resolved", "rejected", "skipped"}
  /\ rl_pc' = [rl_pc EXCEPT ![c] = "start"]
  /\ UNCHANGED rl_running
  /\ UNCHANGED exceptLimiter

LimiterServiceNext ==
  \E c \in Callers : Execute(c) \/ SkipEnrichment(c) \/ Wake(c) \/ Settle(c) \/ CallAgain(c)

\* every pending timer fires and the loop test is repeated; every enrichment
\* call settles
LimiterFairness ==
  \A c \in Callers : WF_vars(Wake(c)) /\ WF_vars(Settle(c))

\* ------------------------------------------------------------------------
\* crossref/client.ts and index.ts : enrichment and validateCitation
\* ------------------------------------------------------------------------
\* title.toLowerCase().replace(/[^\w\s]/g, ' ').replace(/\s+/g, ' ').trim(),
\* as the list of its words
normalizeTitle(title) ==
  LET words == SelectSeq(title, LAMBDA t : t \in Words)
  IN [i \in 1..Len(words) |-> ToLowerWord(words[i])]

\* the words longer than 3 characters, as a set
longWords(title) ==
  {normalizeTitle(title)[i] : i \in {k \in 1..Len(normalizeTitle(title)) :
                                        WordLen(normalizeTitle(title)[k]) > 3}}

\* titleSimilarity(a, b) >= 0.5 : twice the intersection against the union
titleSimilarEnough(a, b) ==
  /\ longWords(a) # {} /\ longWords(b) # {}
  /\ 2 * Cardinality(longWords(a) \cap longWords(b))
       >= Cardinality(longWords(a) \cup longWords(b))

\* name.toLowerCase().trim()
LowerNameOf == [n \in {"Kim", "Lee", "World Health Organization"} |->
                  CASE n = "Kim" -> "kim" [] n = "Lee" -> "lee"
                    [] n = "World Health Organization" -> "world health organization"]
lowerName(lastName) ==
  LET t == Trim(lastName)
  IN [i \in 1..Len(t) |-> IF t[i] \in DOMAIN LowerNameOf THEN LowerNameOf[t[i]] ELSE t[i]]

\* a.includes(b), token by token
includes(a, b) == \E i \in 0..(Len(a) - Len(b)) : SubSeq(a, i + 1, i + Len(b)) = b

mapCrossRefType(crossRefType) ==
  CASE crossRefType = "journal-article" -> "journal"
    [] crossRefType = "book-chapter" -> "chapter"
    [] crossRefType = "proceedings-article" -> "chapter"
    [] crossRefType = "book" -> "book"
    [] OTHER -> "unknown"

\* parseInt(edition) > 1
ParseIntOf == [t \in {"0", "1", "2", "4"} |->
                 CASE t = "0" -> 0 [] t = "1" -> 1 [] t = "2" -> 2 [] t = "4" -> 4]
\* any edition whose number is read
editionRead(edition) ==
  edition # <<>> /\ edition[1] \in DOMAIN ParseIntOf

editionAboveOne(edition) ==
  edition # <<>> /\ edition[1] \in DOMAIN ParseIntOf /\ ParseIntOf[edition[1]] > 1

\* pages.replace(/\s/g, '') has a hyphen, has an en dash
hasTok(pages, t) == \E i \in 1..Len(pages) : pages[i] = t

\* the journal -> chapter part of correctCitationWithCrossRef
journalToChapter(corrected, crossRefWork) ==
  LET c1 == IF Truthy(corrected.volume) /\ Truthy(corrected.pages)
            THEN [corrected EXCEPT !.pages =
                    corrected.volume \o <<Hyphen>>
                    \o (IF Head(corrected.pages) \in {Hyphen, EnDash} THEN Tail(corrected.pages)
                        ELSE corrected.pages)]
            ELSE IF Truthy(corrected.volume)
            THEN [corrected EXCEPT !.pages = corrected.volume]
            ELSE corrected
      c2 == [c1 EXCEPT !.volume = undefined, !.issue = undefined]
      c3 == IF Truthy(c2.source) /\ ~StartsWithIn(c2.source)
            THEN [c2 EXCEPT !.source = <<"In">> \o c2.source] ELSE c2
      c4 == IF Truthy(crossRefWork.publisher)
            THEN [c3 EXCEPT !.publisher = crossRefWork.publisher] ELSE c3
      c5 == IF Len(crossRefWork.editors) > 0
            THEN [c4 EXCEPT !.editors = crossRefWork.editors] ELSE c4
  IN IF Truthy(crossRefWork.edition) /\ editionAboveOne(crossRefWork.edition)
     THEN [c5 EXCEPT !.edition = crossRefWork.edition] ELSE c5

\* the correction with the external pages always taken
correctCitationExternalPages(citation, crossRefWork) ==
  LET crossRefType == mapCrossRefType(crossRefWork.type)
      c1 == IF ~Truthy(citation.doi) /\ Truthy(crossRefWork.doi)
            THEN [citation EXCEPT !.doi =
                    <<ResolverPrefix>> \o (IF Head(crossRefWork.doi) = ResolverPrefix
                                           THEN Tail(crossRefWork.doi) ELSE crossRefWork.doi)]
            ELSE citation
      c2 == IF Truthy(crossRefWork.pages)
            THEN [c1 EXCEPT !.pages = crossRefWork.pages]
            ELSE c1
  IN IF crossRefType = citation.type \/ crossRefType = "unknown"
     THEN [corrected |-> c2, typeChanged |-> FALSE]
     ELSE [corrected |->
             IF citation.type = "journal" /\ crossRefType = "chapter"
             THEN journalToChapter([c2 EXCEPT !.type = crossRefType], crossRefWork)
             ELSE [c2 EXCEPT !.type = crossRefType],
           typeChanged |-> TRUE]

\* [corrected, typeChanged]
correctCitationWithCrossRef(citation, crossRefWork) ==
  LET crossRefType == mapCrossRefType(crossRefWork.type)
      c1 == IF ~Truthy(citation.doi) /\ Truthy(crossRefWork.doi)
            THEN [citation EXCEPT !.doi =
                    <<ResolverPrefix>> \o (IF Head(crossRefWork.doi) = ResolverPrefix
                                           THEN Tail(crossRefWork.doi) ELSE crossRefWork.doi)]
            ELSE citation
      c2 == IF Truthy(crossRefWork.pages) /\ Truthy(c1.pages)
            THEN (IF /\ ~hasTok(c1.pages, Hyphen) /\ ~hasTok(c1.pages, EnDash)
                     /\ hasTok(crossRefWork.pages, Hyphen)
                  THEN [c1 EXCEPT !.pages = crossRefWork.pages] ELSE c1)
            ELSE IF Truthy(crossRefWork.pages)
            THEN [c1 EXCEPT !.pages = crossRefWork.pages]
            ELSE c1
  IN IF crossRefType = citation.type \/ crossRefType = "unknown"
     THEN [corrected |-> c2, typeChanged |-> FALSE]
     ELSE [corrected |->
             IF citation.type = "journal" /\ crossRefType = "chapter"
             THEN journalToChapter([c2 EXCEPT !.type = crossRefType], crossRefWork)
             ELSE [c2 EXCEPT !.type = crossRefType],
           typeChanged |-> TRUE]

\* no answer from the collaborator (searchByTitle resolved with null)
null == [doi |-> <<"<null>">>]

\* the gate without its author test
enrichWhoeverWrote(citation, crossRefWork) ==
  IF /\ crossRefWork # null
     /\ Truthy(crossRefWork.doi)
     /\ titleSimilarEnough(citation.title, crossRefWork.title)
  THEN correctCitationWithCrossRef(citation, crossRefWork)
  ELSE [corrected |-> citation, typeChanged |-> FALSE]

\* the trust gate of validateCitation, then the correction
enrich(citation, crossRefWork) ==
  LET authorMatches ==
        IF Len(citation.authors) > 0 /\ Len(crossRefWork.authors) > 0
        THEN \/ includes(lowerName(citation.authors[1].lastName),
                         lowerName(crossRefWork.authors[1].lastName))
             \/ includes(lowerName(crossRefWork.authors[1].lastName),
                         lowerName(citation.authors[1].lastName))
        ELSE TRUE
  IN IF /\ crossRefWork # null
        /\ Truthy(crossRefWork.doi)
        /\ titleSimilarEnough(citation.title, crossRefWork.title)
        /\ authorMatches
     THEN correctCitationWithCrossRef(citation, crossRefWork)
     ELSE [corrected |-> citation, typeChanged |-> FALSE]

\* the correction reported as a warning
typeMismatchWarning(citation) ==
  Violation("typeMismatch", "type",
            IF citation.type = "chapter" THEN "book chapter/proceedings" ELSE citation.type,
            0, "warning", <<"journal">>, undefined, FALSE)

\* errors.push({ rule: 'typeMismatch', ... })
typeMismatch(citation) ==
  Violation("typeMismatch", "type",
            IF citation.type = "chapter" THEN "book chapter/proceedings" ELSE citation.type,
            0, "info", <<"journal">>, undefined, FALSE)

\* steps 3 to 5 of validateCitation: the rules, the fixes, the score
finish(citation, typeChanged, originalPages) ==
  LET errors == runRules(ALL_RULES, citation)
                \o (IF typeChanged THEN <<typeMismatch(citation)>> ELSE <<>>)
      heap == citation.authors
      r == applyAutoFixes([citation EXCEPT !.authors = [i \in 1..Len(heap) |-> i]], heap, errors)
      autoFixes ==
        r.autoFixes
        \o (IF originalPages # citation.pages /\ Truthy(citation.pages)
            THEN <<AutoFix("pageCompletion", "pages",
                           IF Truthy(originalPages) THEN originalPages ELSE <<"(missing)">>,
                           citation.pages)>>
            ELSE <<>>)
  IN [citation |-> citation, errors |-> errors, autoFixes |-> autoFixes,
      manualFixes |-> r.manualFixes, fixedCitation |-> View(r.fixed, r.heap),
      score |-> calculateScore(errors, autoFixes)]

\* ------------------------------------------------------------------------
\* auto-fix.ts : reconstructCitation. The string is built from pieces; the
\* tokens of the pieces are then brought back to the tokens of a text
\* ------------------------------------------------------------------------
\* a % b of JavaScript (the sign of a)
jsRem(a, b) == IF a >= 0 THEN a % b ELSE -((-a) % b)

suffixes == <<"th", "st", "nd", "rd">>

\* suffixes[(mod100 - 20) % 10] || suffixes[mod100] || suffixes[0]
ordinalSuffix(num) ==
  LET mod100 == num % 100
      first == jsRem(mod100 - 20, 10)
  IN IF first \in 0..3 THEN suffixes[first + 1]
     ELSE IF mod100 \in 0..3 THEN suffixes[mod100 + 1]
     ELSE suffixes[1]

toOrdinal(n) ==
  IF n # <<>> /\ n[1] \in DOMAIN ParseIntOf
  THEN <<n[1], ordinalSuffix(ParseIntOf[n[1]])>>
  ELSE n

\* tokens written one after the other that a text holds as one token
MergedToks ==
  {<<".", " ", ". ">>, <<",", " ", ", ">>, <<"&", " ", "& ">>, <<", ", " ", ", ">>,
   <<". ", " ", ". ">>, <<"& ", " ", "& ">>, <<" ", " ", " ">>,
   <<"(", PpPrefix, "(pp. ">>, <<" ed.", ")", " ed.)">>}

\* the token at i is written into the token before it
absorbed(s, i) ==
  i > 1 /\ i <= Len(s) /\ \E m \in MergedToks : m[1] = s[i - 1] /\ m[2] = s[i]

\* .replace(/\s+/g, ' '), and the tokens of a text: a token and the tokens
\* written into it make one token
Retokenise(s) ==
  LET kept == SelectSeq([i \in 1..Len(s) |-> i], LAMBDA i : ~absorbed(s, i))
  IN [k \in 1..Len(kept) |->
        IF absorbed(s, kept[k] + 1)
        THEN (CHOOSE m \in MergedToks :
                m[1] = s[kept[k]] /\ m[2] = s[kept[k] + 1])[3]
        ELSE s[kept[k]]]

RECURSIVE JoinWith(_, _)
\* pieces.join(sep)
JoinWith(pieces, sep) ==
  IF pieces = <<>> THEN <<>>
  ELSE IF Len(pieces) = 1 THEN pieces[1]
  ELSE pieces[1] \o sep \o JoinWith(Tail(pieces), sep)

\* .filter(Boolean)
NonEmpty(pieces) == SelectSeq(pieces, LAMBDA x : x # <<>>)

\* the authors part
authorsString(authors) ==
  LET n == Len(authors)
      authorStrings ==
        NonEmpty([i \in 1..n |->
                    IF n > 20 /\ i - 1 = 19 THEN <<"...">>
                    ELSE IF n > 20 /\ i - 1 > 19 /\ i - 1 < n - 1 THEN <<>>
                    ELSE IF authors[i].isGroupAuthor THEN authors[i].lastName
                    ELSE authors[i].lastName \o <<", ">> \o authors[i].initials])
      m == Len(authorStrings)
  IN IF m = 1 THEN authorStrings[1]
     ELSE IF m = 2 THEN authorStrings[1] \o <<", ", "& ">> \o authorStrings[2]
     ELSE IF m = 0 THEN <<", ", "& ", "undefined">>
     ELSE JoinWith(SubSeq(authorStrings, 1, m - 1), <<", ">>)
          \o <<", ", "& ">> \o authorStrings[m]

\* the year part
yearString(citation) ==
  IF Truthy(citation.fullDate) THEN <<"(">> \o citation.fullDate \o <<")", ".">>
  ELSE IF Truthy(citation.yearSuffix)
  THEN <<"(">> \o citation.year \o citation.yearSuffix \o <<")", ".">>
  ELSE <<"(">> \o citation.year \o <<")", ".">>

\* *Title* (Report No. n). Publisher.
reportPart(citation, publisher) ==
  <<"*">> \o citation.title \o <<"*">>
  \o (IF Truthy(citation.reportNumber)
      THEN <<" ", "(Report No. ">> \o citation.reportNumber \o <<")">> ELSE <<>>)
  \o <<".">>
  \o (IF Truthy(publisher) THEN <<" ">> \o publisher \o <<".">> ELSE <<>>)

\* Title [Paper presentation]. Conference Name.
confPart(citation) ==
  citation.title
  \o (IF Truthy(citation.bracketType)
      THEN <<" ", "[">> \o citation.bracketType \o <<"]">> ELSE <<>>)
  \o <<".">>
  \o (IF Truthy(citation.conferenceName)
      THEN <<" ">> \o citation.conferenceName \o <<".">> ELSE <<>>)

\* *Title* [Doctoral dissertation, Institution]. Database.
dissPart(citation) ==
  <<"*">> \o citation.title \o <<"*">>
  \o (IF Truthy(citation.bracketType)
      THEN <<" ", "[">> \o citation.bracketType \o <<"]">> ELSE <<>>)
  \o <<".">>
  \o (IF Truthy(citation.databaseName)
      THEN <<" ">> \o citation.databaseName \o <<".">> ELSE <<>>)

\* *Journal*, *volume*(issue), pages.
journalPart(citation) ==
  <<"*">> \o citation.source \o <<"*">>
  \o (IF Truthy(citation.volume)
      THEN <<", ", "*">> \o citation.volume \o <<"*">>
           \o (IF Truthy(citation.issue) THEN <<"(">> \o citation.issue \o <<")">> ELSE <<>>)
      ELSE <<>>)
  \o (IF Truthy(citation.pages) THEN <<", ">> \o citation.pages ELSE <<>>)
  \o <<".">>

\* In E. Editor (Ed.), *Book title* (ed., pp. X-Y). Publisher.
chapterPart(citation) ==
  LET bookTitle == IF StartsWithIn(citation.source) THEN Tail(citation.source)
                   ELSE citation.source
      editorStrings == [i \in 1..Len(citation.editors) |->
                          citation.editors[i].initials \o <<" ">> \o citation.editors[i].lastName]
      m == Len(editorStrings)
      editorsStr == IF m = 1 THEN editorStrings[1]
                    ELSE IF m = 2 THEN editorStrings[1] \o <<" ", "& ">> \o editorStrings[2]
                    ELSE JoinWith(SubSeq(editorStrings, 1, m - 1), <<", ">>)
                         \o <<", ", "& ">> \o editorStrings[m]
      parenParts == (IF Truthy(citation.edition)
                     THEN <<toOrdinal(citation.edition) \o <<" ed.">>>> ELSE <<>>)
                    \o (IF Truthy(citation.pages)
                        THEN <<<<PpPrefix>> \o citation.pages>> ELSE <<>>)
  IN <<"In">>
     \o (IF m > 0
         THEN editorsStr \o <<" ", IF m = 1 THEN "(Ed.)" ELSE "(Eds.)", ", ">>
         ELSE <<"[Editor, F. M.]", " ", "(Ed.)", ", ">>)
     \o <<"*">> \o bookTitle \o <<"*">>
     \o (IF parenParts # <<>>
         THEN <<" ", "(">> \o JoinWith(parenParts, <<", ">>) \o <<")">> ELSE <<>>)
     \o <<".">>
     \o (IF Truthy(citation.publisher) THEN <<" ">> \o citation.publisher \o <<".">>
         ELSE <<>>)

\* *Title* (Nth ed.). Publisher.
bookPart(citation) ==
  <<"*">> \o citation.source \o <<"*">>
  \o (IF Truthy(citation.edition)
      THEN <<" ", "(">> \o toOrdinal(citation.edition) \o <<" ed.", ")">> ELSE <<>>)
  \o <<".">>
  \o (IF Truthy(citation.publisher) THEN <<" ">> \o citation.publisher \o <<".">>
      ELSE <<>>)

\* const titleIdx = parts.findIndex(p => p === citation.title + '.');
\* if (titleIdx >= 0) parts.splice(titleIdx, 1)
withoutTitlePart(parts, title) ==
  LET titleIdx == FirstOf({i \in 1..Len(parts) : parts[i] = title \o <<".">>})
  IN IF titleIdx = 0 THEN parts
     ELSE SubSeq(parts, 1, titleIdx - 1) \o SubSeq(parts, titleIdx + 1, Len(parts))

\* the pieces up to the title
headParts(citation) ==
  (IF Len(citation.authors) > 0 THEN <<authorsString(citation.authors)>> ELSE <<>>)
  \o (IF Truthy(citation.year) THEN <<yearString(citation)>> ELSE <<>>)
  \o (IF Truthy(citation.title) THEN <<citation.title \o <<".">>>> ELSE <<>>)

\* the pieces up to the source of a report, a conference paper or a
\* dissertation without source
sourcelessParts(citation, parts) ==
  IF Truthy(citation.source) \/ citation.type \notin {"report", "conference", "dissertation"}
  THEN parts
  ELSE Append(withoutTitlePart(parts, citation.title),
              IF citation.type = "report" THEN reportPart(citation, citation.publisher)
              ELSE IF citation.type = "conference" THEN confPart(citation)
              ELSE dissPart(citation))

\* the pieces up to the source
sourceParts(citation, parts) ==
  IF ~Truthy(citation.source) THEN parts
  ELSE IF citation.type = "journal" THEN Append(parts, journalPart(citation))
  ELSE IF citation.type = "chapter" THEN Append(parts, chapterPart(citation))
  ELSE IF citation.type = "book" THEN Append(parts, bookPart(citation))
  ELSE IF citation.type = "report"
  THEN Append(withoutTitlePart(parts, citation.title),
              reportPart(citation, IF Truthy(citation.publisher) THEN citation.publisher
                                   ELSE citation.source))
  ELSE IF citation.type = "conference"
  THEN Append(withoutTitlePart(parts, citation.title), confPart(citation))
  ELSE IF citation.type = "dissertation"
  THEN Append(withoutTitlePart(parts, citation.title), dissPart(citation))
  ELSE Append(parts, citation.source)

\* the pieces up to the DOI or the URL
doiParts(citation, parts) ==
  IF Truthy(citation.doi) THEN Append(parts, citation.doi)
  ELSE IF Truthy(citation.url) THEN Append(parts, citation.url)
  ELSE parts

\* parts.join(' ').replace(/\s+/g, ' ').trim()
reconstructCitation(citation) ==
  Trim(Retokenise(JoinWith(
    doiParts(citation, sourceParts(citation, sourcelessParts(citation, headParts(citation)))),
    <<" ">>)))

\* ------------------------------------------------------------------------
\* Parser harness: parseCitation step by step; the catch block may take over
\* at any point of the try block
\* ------------------------------------------------------------------------
AuthorBlocks ==
  {<<>>,
   <<"Kim", ", ", "B", ". ", "Y", ". ">>,
   <<"Kim", ", ", "B", ". ", "Y", ".", ", ", "& ", "Lee", ", ", "Y", ". ">>,
   <<"Kim", ", ", "B", ". ", "Y", ".", " and ", "Lee", ", ", "Y", ". ">>,
   <<"World Health Organization", ". ">>}

YearParts ==
  {<<>>, <<"(", "2024", ")">>, <<"(", "2024", "a", ")">>, <<"(", "n.d.", ")">>,
   <<"(", "2024", ", ", "March 15", ")">>, <<"(", "45", ")">>}

TitleParts == {<<"The", "impact", "of", "AI">>,
               <<"The", "Impact", "Of", "Education", "Technology">>}

\* what follows the title
SourceParts ==
  {<<".">>,
   <<". ", "Sage", ".">>,
   <<". ", "Sage", "Press", ".">>,
   <<". ", "New York, NY: ", "Sage", "Press", ".">>,
   <<". ", "Journal", "of", "Education", ", ", "45", "(", "2", ")", ", ", "123", Hyphen, "145", ".">>,
   <<". ", "journal", "of", "education", ", ", "45", "(", "2", ")", ", ", "123", EnDash, "145", ".">>,
   <<". ", "Journal", "of", "Education", ", ", "45", "(", "2", ")", ", ", "123", ".">>,
   <<". ", "Journal", ", ", VolPrefix, "45", "(", "2", ")", ", ", PpPrefix, "123", Hyphen, "145", ".">>,
   <<". ", "Journal", ", ", VolPrefix, "45", ", ", NoPrefix, "2", ", ", PpPrefix, "123", EnDash, "145", ".">>,
   <<". ", "Journal", ", ", VolPrefix, "45", ".">>,
   <<". ", "Journal", ", ", "267", Hyphen, "282", ".">>,
   <<". ", "In", "Handbook", "of", "Education", " ", "(pp. ", "123", Hyphen, "145", ")", ". ", "Sage", ".">>,
   <<". ", "In", "Lee", ", ", "Y", ". ", "(Eds.)", ", ", "Handbook", " ", "(pp. ", "123", EnDash,
     "145", ")", ". ", "Sage", ".">>,
   <<". ", "Handbook", "of", "education", " ", "(pp. ", "123", EnDash, "145", ")", ".">>,
   <<" ", "(", "4", "th", " ed.)", ". ", "Sage", ".">>,
   <<" ", "[", "Paper presentation", "]", ". ", "Annual Conference", ", ", "Berlin", ".">>,
   <<" ", "[", "Paper presentation", "]", ".">>,
   <<" ", "[", "Video", "]", ". ", "Sage", ".">>,
   <<" ", "[", "Doctoral dissertation", ", ", "MIT", "]", ". ", "ProQuest", ".">>,
   <<" ", "(Report No. ", "45", ")", ". ", "New York, NY: ", "Agency", ".">>,
   <<" ", "(Report No. ", "45", ")", ". ", "Agency", ".">>}

\* a DOI or a URL at the end of the text
LinkParts ==
  {<<>>,
   <<" ", ResolverPrefix, "10.1234/test">>,
   <<" ", ResolverPrefix, "10.1234/test", ".">>,
   <<" ", ResolverPrefix, ".">>,
   <<" ", "doi:", "10.1234/test", ".">>,
   <<" ", "https://example.com">>}

\* white space around the text
Paddings == {<<>>, <<" ">>}

Texts ==
  {w \o a \o y \o (IF y = <<>> THEN <<>> ELSE <<". ">>) \o t \o x \o l \o w :
     w \in Paddings, a \in AuthorBlocks, y \in YearParts, t \in TitleParts,
     x \in SourceParts, l \in LinkParts}

ParseInit ==
  /\ ps_text \in Texts
  /\ ps_citation = emptyCitation(<<>>)
  /\ ps_rem = <<>>
  /\ ps_failed = FALSE
  /\ ps_pc = "start"

ParseIdle ==
  /\ ps_text = <<>>
  /\ ps_citation = emptyCitation(<<>>)
  /\ ps_rem = <<>>
  /\ ps_failed = FALSE
  /\ ps_pc = "idle"

\* const raw = text.trim(); const citation = { raw, authors: [], ... }
Begin ==
  /\ ps_pc = "start"
  /\ ps_citation' = emptyCitation(Trim(ps_text))
  /\ ps_pc' = "try"
  /\ UNCHANGED <<ps_text, ps_rem, ps_failed>>
  /\ UNCHANGED exceptParse

\* raw.match(yearRegex): the year fields, or the whole text as the title
MatchYear ==
  /\ ps_pc = "try"
  /\ IF yearMatch(ps_citation.raw) # 0
     THEN /\ ps_citation' = yearExtract(ps_citation, fullDateStrOf(ps_citation.raw))
          /\ ps_pc' = "year"
     ELSE /\ ps_citation' = [ps_citation EXCEPT !.title = ps_citation.raw]
          /\ ps_pc' = "returned"
  /\ UNCHANGED <<ps_text, ps_rem, ps_failed>>
  /\ UNCHANGED exceptParse

ParseAuthors ==
  /\ ps_pc = "year"
  /\ ps_citation' = authorsExtract(ps_citation, beforeYearOf(ps_citation.raw))
  /\ ps_pc' = "authors"
  /\ UNCHANGED <<ps_text, ps_rem, ps_failed>>
  /\ UNCHANGED exceptParse

\* parseRemainingElements up to the split into segments; it writes into the
\* record parseCitation returns
PreExtract ==
  /\ ps_pc = "authors"
  /\ LET st == preExtract(afterYearOf(ps_citation.raw), ps_citation)
     IN /\ ps_citation' = st.c
        /\ ps_rem' = st.rem
  /\ ps_pc' = "segments"
  /\ UNCHANGED <<ps_text, ps_failed>>
  /\ UNCHANGED exceptParse

SegmentsExtract ==
  /\ ps_pc = "segments"
  /\ ps_citation' = segmentsExtract([c |-> ps_citation, rem |-> ps_rem])
  /\ ps_pc' = "returned"
  /\ UNCHANGED <<ps_text, ps_rem, ps_failed>>
  /\ UNCHANGED exceptParse

\* catch (error) { citation.title = raw; } : something threw in the try block
Catch ==
  /\ ps_pc \in {"try", "year", "authors", "segments"}
  /\ ps_citation' = [ps_citation EXCEPT !.title = ps_citation.raw]
  /\ ps_failed' = TRUE
  /\ ps_pc' = "returned"
  /\ UNCHANGED <<ps_text, ps_rem>>
  /\ UNCHANGED exceptParse

ParseNext == Begin \/ MatchYear \/ ParseAuthors \/ PreExtract \/ SegmentsExtract \/ Catch

\* ------------------------------------------------------------------------
\* Validation harness: one call of validateCitation (the enrichment call
\* answers anything the collaborator can answer) or of
\* validateCitationWithoutCrossRef
\* ------------------------------------------------------------------------
ValidateTexts ==
  {a \o y \o (IF y = <<>> THEN <<>> ELSE <<". ">>) \o t \o x \o l :
     a \in {<<>>, <<"Kim", ", ", "B", ". ", "Y", ". ">>,
            <<"Kim", ", ", "B", ". ", "Y", ".", " and ", "Lee", ", ", "Y", ". ">>},
     y \in {<<>>, <<"(", "2024", ")">>},
     t \in TitleParts,
     x \in SourceParts,
     l \in {<<>>, <<" ", ResolverPrefix, ".">>, <<" ", ResolverPrefix, "10.1234/test">>}}

\* a CrossRefWork as parseCrossRefResponse builds it
CrossRefWork(doi, title, authors, type, pages, complete) ==
  [doi |-> doi, title |-> title, authors |-> authors, year |-> <<"2024">>,
   source |-> <<"Handbook", "of", "Education">>, volume |-> undefined, issue |-> undefined,
   pages |-> pages, type |-> type,
   publisher |-> IF complete THEN <<"Sage">> ELSE undefined,
   editors |-> IF complete THEN <<Lee>> ELSE <<>>,
   edition |-> IF complete THEN <<"2">> ELSE undefined]

CrossRefWorks ==
  {CrossRefWork(d, t, a, ty, pg, cp) :
     d \in {<<>>, <<"10.1234/test">>},
     t \in {<<"The", "Impact", "of", "AI">>, <<"Handbook", "of", "technology">>},
     a \in {<<>>, <<Kim>>, <<Lee>>},
     ty \in {"journal-article", "book-chapter", "proceedings-article", "book"},
     pg \in {undefined, <<"123", Hyphen, "145">>},
     cp \in BOOLEAN}
  \cup {[CrossRefWork(d, <<"The", "Impact", "of", "AI">>, <<Kim>>, ty, pg, TRUE)
           EXCEPT !.edition = ed] :
          d \in {<<"10.1234/new">>, <<ResolverPrefix, "10.1234/new">>},
          ty \in {"book-chapter", "dataset"},
          pg \in {<<"123">>, <<"100", EnDash, "200">>},
          ed \in {<<"1">>, <<"0">>}}

\* the enrichment call threw
rejected == [doi |-> <<"<rejected>">>]

\* no enrichment call was made for the citation
skipped == [doi |-> <<"<skipped>">>]

\* the test without its author part
enrichmentWithoutAuthors(citation, useCrossRef) ==
  useCrossRef /\ Truthy(citation.title)

\* the flag left out of the test
enrichmentWhateverFlag(citation, useCrossRef) ==
  Truthy(citation.title) /\ Len(citation.authors) > 0

\* if (useCrossRef && citation.title && citation.authors.length > 0)
enrichmentAttempted(citation, useCrossRef) ==
  useCrossRef /\ Truthy(citation.title) /\ Len(citation.authors) > 0

emptyResult ==
  [citation |-> emptyCitation(<<>>), errors |-> <<>>, autoFixes |-> <<>>, manualFixes |-> <<>>,
   fixedCitation |-> emptyCitation(<<>>), score |-> -1]

ValidateInit ==
  /\ vd_call \in {"validateCitation", "validateCitationWithoutCrossRef"}
  /\ vd_text \in ValidateTexts
  /\ vd_useCrossRef \in (IF vd_call = "validateCitation" THEN BOOLEAN ELSE {FALSE})
  /\ vd_parsed = emptyCitation(<<>>)
  /\ vd_work = skipped
  /\ vd_typeChanged = FALSE
  /\ vd_result = emptyResult
  /\ vd_pc = "start"

ValidateIdle ==
  /\ vd_call = "none"
  /\ vd_text = <<>>
  /\ vd_useCrossRef = FALSE
  /\ vd_parsed = emptyCitation(<<>>)
  /\ vd_work = skipped
  /\ vd_typeChanged = FALSE
  /\ vd_result = emptyResult
  /\ vd_pc = "idle"

\* validateCitation up to its await, or to its end when enrichment is skipped
StartValidate ==
  /\ vd_pc = "start" /\ vd_call = "validateCitation"
  /\ \E citation \in {parseCitation(vd_text)} :
       /\ vd_parsed' = citation
       /\ IF enrichmentAttempted(citation, vd_useCrossRef)
          THEN /\ vd_pc' = "awaiting"
               /\ UNCHANGED vd_result
          ELSE /\ vd_pc' = "returned"
               /\ vd_result' = finish(citation, FALSE, citation.pages)
  /\ UNCHANGED <<vd_call, vd_text, vd_useCrossRef, vd_work, vd_typeChanged>>
  /\ UNCHANGED exceptValidate

\* the enrichment call settles and validateCitation runs to its end
Resume ==
  /\ vd_pc = "awaiting"
  /\ \E crossRefWork \in CrossRefWorks \cup {null, rejected} :
       \E e \in {IF crossRefWork = rejected
                 THEN [corrected |-> vd_parsed, typeChanged |-> FALSE]
                 ELSE enrich(vd_parsed, crossRefWork)} :
         /\ vd_work' = crossRefWork
         /\ vd_typeChanged' = e.typeChanged
         /\ vd_result' = finish(e.corrected, e.typeChanged, vd_parsed.pages)
  /\ vd_pc' = "returned"
  /\ UNCHANGED <<vd_call, vd_text, vd_useCrossRef, vd_parsed>>
  /\ UNCHANGED exceptValidate

\* steps 2 to 4 of validateCitationWithoutCrossRef
finishWithoutCrossRef(citation) ==
  LET errors == runRules(ALL_RULES, citation)
      heap == citation.authors
      r == applyAutoFixes([citation EXCEPT !.authors = [i \in 1..Len(heap) |-> i]], heap, errors)
  IN [citation |-> citation, errors |-> errors, autoFixes |-> r.autoFixes,
      manualFixes |-> r.manualFixes, fixedCitation |-> View(r.fixed, r.heap),
      score |-> calculateScore(errors, r.autoFixes)]

ValidateWithoutCrossRef ==
  /\ vd_pc = "start" /\ vd_call = "validateCitationWithoutCrossRef"
  /\ \E citation \in {parseCitation(vd_text)} :
       /\ vd_parsed' = citation
       /\ vd_result' = finishWithoutCrossRef(citation)
  /\ vd_pc' = "returned"
  /\ UNCHANGED <<vd_call, vd_text, vd_useCrossRef, vd_work, vd_typeChanged>>
  /\ UNCHANGED exceptValidate

ValidateNext == StartValidate \/ Resume \/ ValidateWithoutCrossRef

\* ------------------------------------------------------------------------
\* Batch harness: one call of validateCitations
\* ------------------------------------------------------------------------
\* the try block without its catch: a call that threw leaves no result
resumedWithoutCatch(parsed, crossRefWork) ==
  IF crossRefWork = rejected THEN emptyResult
  ELSE finish(enrich(parsed, crossRefWork).corrected, enrich(parsed, crossRefWork).typeChanged,
              parsed.pages)

\* validateCitation from the settling of its enrichment call to its end
resumed(parsed, crossRefWork) ==
  IF crossRefWork = rejected THEN finish(parsed, FALSE, parsed.pages)
  ELSE finish(enrich(parsed, crossRefWork).corrected, enrich(parsed, crossRefWork).typeChanged,
              parsed.pages)

BatchBlocks ==
  {<<"Kim", ", ", "B", ". ", "Y", ". ", "(", "2024", ")", ". ", "The", "impact", "of", "AI", ". ",
     "Journal", "of", "Education", ", ", "45", "(", "2", ")", ", ", "123", ".">>,
   <<"The", "impact", "of", "AI", ".">>,
   <<"Lee", ", ", "Y", ". ", "(", "2024", ")", ". ", "The", "Impact", "Of", "Education",
     "Technology", ". ", "Journal", ", ", "267", Hyphen, "282", ".">>}

\* what stands between two blocks, before the first and after the last
BatchSeparators == {<<"\n", "\n">>, <<"\n", " ", "\n", "\n">>, <<"\n">>}
BatchLeads == {<<>>, <<"\n", "\n">>}
BatchTrails == {<<>>, <<" ", "\n">>}

RECURSIVE Join(_, _)
Join(blocks, sep) ==
  IF Len(blocks) = 0 THEN <<>>
  ELSE IF Len(blocks) = 1 THEN blocks[1]
  ELSE blocks[1] \o sep \o Join(Tail(blocks), sep)

BatchTexts ==
  {lead \o Join(blocks, sep) \o trail :
     lead \in BatchLeads, sep \in BatchSeparators, trail \in BatchTrails,
     blocks \in SeqsUpTo(BatchBlocks, MaxBlocks)}

\* what the enrichment call of a batch may answer
BatchWorks ==
  {CrossRefWork(<<"10.1234/test">>, <<"The", "Impact", "of", "AI">>, <<Kim>>, "book-chapter",
                <<"123", Hyphen, "145">>, TRUE),
   CrossRefWork(<<"10.1234/test">>, <<"The", "Impact", "Of", "Education", "Technology">>,
                <<Lee>>, "book-chapter", undefined, FALSE),
   null, rejected}

BatchInit ==
  /\ bt_text \in BatchTexts
  /\ bt_useCrossRef \in BOOLEAN
  /\ bt_citations = <<>>
  /\ bt_results = <<>>
  /\ bt_answers = <<>>
  /\ bt_started = 0
  /\ bt_inFlight = {}
  /\ bt_pauses = 0
  /\ bt_pc = "start"

BatchIdle ==
  /\ bt_text = <<>>
  /\ bt_useCrossRef = FALSE
  /\ bt_citations = <<>>
  /\ bt_results = <<>>
  /\ bt_answers = <<>>
  /\ bt_started = 0
  /\ bt_inFlight = {}
  /\ bt_pauses = 0
  /\ bt_pc = "idle"

\* if (!useCrossRef) return Promise.all(citations.map(c => validateCitation(c.raw, false)))
BatchAll ==
  /\ bt_pc = "start" /\ ~bt_useCrossRef
  /\ \E citations \in {parseCitations(bt_text)} :
       /\ bt_citations' = [k \in 1..Len(citations) |-> citations[k].raw]
       /\ bt_results' = [k \in 1..Len(citations) |->
                           finish(parseCitation(citations[k].raw), FALSE,
                                  parseCitation(citations[k].raw).pages)]
       /\ bt_answers' = [k \in 1..Len(citations) |-> skipped]
       /\ bt_started' = Cardinality({k \in 1..Len(citations) :
                                       enrichmentAttempted(citations[k], FALSE)})
  /\ bt_pc' = "returned"
  /\ UNCHANGED <<bt_text, bt_useCrossRef, bt_inFlight, bt_pauses>>
  /\ UNCHANGED exceptBatch

\* const citations = parseCitations(text); const results = []; the loop is entered
BatchLoop ==
  /\ bt_pc = "start" /\ bt_useCrossRef
  /\ \E citations \in {parseCitations(bt_text)} :
       /\ bt_citations' = [k \in 1..Len(citations) |-> citations[k].raw]
       /\ bt_pc' = IF Len(citations) = 0 THEN "returned" ELSE "loop"
  /\ UNCHANGED <<bt_text, bt_useCrossRef, bt_results, bt_answers, bt_started, bt_inFlight,
                 bt_pauses>>
  /\ UNCHANGED exceptBatch

\* await validateCitation(citation.raw, true), up to its await or, when the
\* enrichment is skipped, to results.push(result)
BatchCall ==
  /\ bt_pc = "loop"
  /\ \E citation \in {parseCitation(bt_citations[Len(bt_results) + 1])} :
       IF enrichmentAttempted(citation, TRUE)
       THEN /\ bt_started' = bt_started + 1
            /\ bt_inFlight' = bt_inFlight \cup {Len(bt_results) + 1}
            /\ bt_pc' = "awaiting"
            /\ UNCHANGED <<bt_results, bt_answers>>
       ELSE /\ bt_results' = Append(bt_results, finish(citation, FALSE, citation.pages))
            /\ bt_answers' = Append(bt_answers, skipped)
            /\ bt_pc' = "pause"
            /\ UNCHANGED <<bt_started, bt_inFlight>>
  /\ UNCHANGED <<bt_text, bt_useCrossRef, bt_citations, bt_pauses>>
  /\ UNCHANGED exceptBatch

\* the enrichment call settles, validateCitation returns, results.push(result)
BatchSettle ==
  /\ bt_pc = "awaiting"
  /\ \E crossRefWork \in BatchWorks :
       /\ bt_results' = Append(bt_results,
                               resumed(parseCitation(bt_citations[Len(bt_results) + 1]),
                                       crossRefWork))
       /\ bt_answers' = Append(bt_answers, crossRefWork)
  /\ bt_inFlight' = bt_inFlight \ {Len(bt_results) + 1}
  /\ bt_pc' = "pause"
  /\ UNCHANGED <<bt_text, bt_useCrossRef, bt_citations, bt_started, bt_pauses>>
  /\ UNCHANGED exceptBatch

\* await new Promise(resolve => setTimeout(resolve, 300)) is over
BatchPause ==
  /\ bt_pc = "pause"
  /\ bt_pauses' = bt_pauses + 1
  /\ bt_pc' = IF Len(bt_results) = Len(bt_citations) THEN "returned" ELSE "loop"
  /\ UNCHANGED <<bt_text, bt_useCrossRef, bt_citations, bt_results, bt_answers, bt_started,
                 bt_inFlight>>
  /\ UNCHANGED exceptBatch

BatchNext == BatchAll \/ BatchLoop \/ BatchCall \/ BatchSettle \/ BatchPause

\* ------------------------------------------------------------------------
\* Request harness: one call of POST (app/api/validate/route.ts)
\* ------------------------------------------------------------------------
\* JSON values that are not strings
number123 == <<"<number 123>">>
jsonTrue == <<"<true>">>
jsonFalse == <<"<false>">>

\* typeof v
typeof(v) ==
  IF v = undefined THEN "undefined"
  ELSE IF v = number123 THEN "number"
  ELSE IF v \in {jsonTrue, jsonFalse} THEN "boolean"
  ELSE "string"

RequestTexts ==
  {lead \o core \o trail :
     lead \in {<<>>, <<" ">>, <<" ", " ">>, <<"\n">>},
     core \in {<<>>, <<"Some", "citation", "text">>,
               <<"Some", "citation", "\n", "\n", "text">>},
     trail \in {<<>>, <<" ">>, <<"\n", " ">>}}

\* what request.json() resolves with: an object or null
RequestBodies ==
  {[json |-> "object", text |-> t, useCrossRef |-> u] :
     t \in RequestTexts \cup {undefined, number123},
     u \in {undefined, jsonTrue, jsonFalse}}
  \cup {[json |-> "null", text |-> undefined, useCrossRef |-> undefined]}

\* request.json() rejects: the body is not JSON
unreadable == [json |-> "unreadable", text |-> undefined, useCrossRef |-> undefined]

noResponse == [status |-> 0, error |-> "", results |-> -1]

RouteInit ==
  /\ rq_body \in RequestBodies \cup {unreadable}
  /\ rq_calls = <<>>
  /\ rq_response = noResponse
  /\ rq_pc = "reading"

RouteIdle ==
  /\ rq_body = unreadable
  /\ rq_calls = <<>>
  /\ rq_response = noResponse
  /\ rq_pc = "idle"

\* NextResponse.json({ error: ... }, { status: ... })
errorResponse(status, error) == [status |-> status, error |-> error, results |-> -1]

\* the test accepts every text
textAccepted(text) == TRUE

\* !(!text || typeof text !== 'string' || text.trim().length === 0)
textRequired(text) ==
  ~(~Truthy(text) \/ typeof(text) # "string" \/ Len(Trim(text)) = 0)

\* const { text, useCrossRef = true } = body
useCrossRefOf(body) == IF body.useCrossRef = undefined THEN jsonTrue ELSE body.useCrossRef

\* await request.json() settles; the handler runs to its 400 or 500 answer or
\* to its call of validateCitations
ReadBody ==
  /\ rq_pc = "reading"
  /\ IF rq_body.json # "object"
     THEN /\ rq_response' = errorResponse(500, "Internal server error during validation")
          /\ rq_pc' = "answered"
          /\ UNCHANGED rq_calls
     ELSE IF ~textRequired(rq_body.text)
     THEN /\ rq_response' = errorResponse(400, "Citation text is required")
          /\ rq_pc' = "answered"
          /\ UNCHANGED rq_calls
     ELSE /\ rq_calls' = Append(rq_calls, [text |-> Trim(rq_body.text),
                                           useCrossRef |-> useCrossRefOf(rq_body)])
          /\ rq_pc' = "awaiting"
          /\ UNCHANGED rq_response
  /\ UNCHANGED rq_body
  /\ UNCHANGED exceptRoute

\* validateCitations resolves: NextResponse.json({ results })
Respond ==
  /\ rq_pc = "awaiting"
  /\ rq_response' = [status |-> 200, error |-> "",
                     results |-> Len(citationTexts(rq_calls[Len(rq_calls)].text))]
  /\ rq_pc' = "answered"
  /\ UNCHANGED <<rq_body, rq_calls>>
  /\ UNCHANGED exceptRoute

\* validateCitations rejects: the catch block
RespondError ==
  /\ rq_pc = "awaiting"
  /\ rq_response' = errorResponse(500, "Internal server error during validation")
  /\ rq_pc' = "answered"
  /\ UNCHANGED <<rq_body, rq_calls>>
  /\ UNCHANGED exceptRoute

RouteNext == ReadBody \/ Respond \/ RespondError

\* ------------------------------------------------------------------------
\* Round trip harness: a text is parsed and checked, its record is
\* reconstructed into a string, and the string is parsed
\* ------------------------------------------------------------------------
RoundTripInit ==
  /\ rt_text \in ValidateTexts
  /\ rt_citation = emptyCitation(<<>>)
  /\ rt_errors = <<>>
  /\ rt_string = <<>>
  /\ rt_reparsed = emptyCitation(<<>>)
  /\ rt_pc = "start"

RoundTripIdle ==
  /\ rt_text = <<>>
  /\ rt_citation = emptyCitation(<<>>)
  /\ rt_errors = <<>>
  /\ rt_string = <<>>
  /\ rt_reparsed = emptyCitation(<<>>)
  /\ rt_pc = "idle"

\* parseCitation(text), then the rules
ParseAndCheck ==
  /\ rt_pc = "start"
  /\ \E citation \in {parseCitation(rt_text)} :
       /\ rt_citation' = citation
       /\ rt_errors' = runRules(ALL_RULES, citation)
  /\ rt_pc' = "parsed"
  /\ UNCHANGED <<rt_text, rt_string, rt_reparsed>>
  /\ UNCHANGED exceptRoundTrip

Reconstruct ==
  /\ rt_pc = "parsed"
  /\ rt_string' = reconstructCitation(rt_citation)
  /\ rt_pc' = "reconstructed"
  /\ UNCHANGED <<rt_text, rt_citation, rt_errors, rt_reparsed>>
  /\ UNCHANGED exceptRoundTrip

\* parseCitation(reconstructCitation(record))
Reparse ==
  /\ rt_pc = "reconstructed"
  /\ rt_reparsed' = parseCitation(rt_string)
  /\ rt_pc' = "reparsed"
  /\ UNCHANGED <<rt_text, rt_citation, rt_errors, rt_string>>
  /\ UNCHANGED exceptRoundTrip

RoundTripNext == ParseAndCheck \/ Reconstruct \/ Reparse

\* ------------------------------------------------------------------------
\* Fixer harness: the rules, applyAutoFixes and calculateScore applied to
\* a given record (validateCitationWithoutCrossRef after its parsing step)
\* ------------------------------------------------------------------------
\* a well-formed record of the given type
Baseline(type) ==
  [emptyCitation(<<>>) EXCEPT
     !.authors = <<Kim>>, !.year = <<"2024">>,
     !.title = <<"The", "impact", "of", "AI">>,
     !.source = <<"Journal", "of", "Education">>, !.type = type]

RawAnd == <<"Kim", ", ", "B", ". ", "Y", ".", " and ", "Lee", ", ", "Y", ". ",
            "(", "2024", ")", ". ", "impact", ".">>
RawNoPeriod == <<"Kim", ", ", "B", ". ", "Y", ". ", "(", "2024", ")", ". ", "impact">>
RawUrl == <<"Kim", ", ", "B", ". ", "Y", ". ", "(", "2024", ")", ". ", "impact", ". ",
            "https://example.com">>

\* the values a field of a test record may take instead of its baseline
FieldOptions ==
  {<<"authors", a>> : a \in {<<>>, <<Author(<<"Kim">>, <<"B", ".", "Y", ".">>, FALSE)>>,
                              <<Kim, Author(<<"Lee">>, <<"B", " ", "Y">>, FALSE)>>,
                              <<Kim, Lee>>,
                              <<Author(<<"Kim">>, <<>>, FALSE)>>,
                              <<Author(<<>>, <<"B", ".">>, FALSE)>>,
                              <<Author(<<"World Health Organization">>, <<>>, TRUE)>>,
                              <<Author(<<>>, <<>>, TRUE)>>,
                              Repeat(Lee, 21)}}
  \cup {<<"raw", r>> : r \in {RawAnd, RawNoPeriod, RawUrl}}
  \cup {<<"year", y>> : y \in {<<>>, <<"n.d.">>, <<"2024", "a">>, <<"abcd">>}}
  \cup {<<"title", t>> : t \in {<<>>, <<"The", "Impact", "Of", "Education", "Technology">>,
                                <<"AI", ": ", "the", "Impact", "Education", "Technology">>}}
  \cup {<<"source", x>> : x \in {<<>>, <<"journal", "of", "education">>,
                                 <<"In", "handbook", "of", "education">>,
                                 <<"In", "Handbook">>,
                                 <<"New York, NY: ", "Journal">>}}
  \cup {<<"volume", v>> : v \in {<<"45">>, <<VolPrefix, "45">>, <<"abc">>, <<VolPrefix>>}}
  \cup {<<"issue", v>> : v \in {<<"2">>, <<NoPrefix, "2">>}}
  \cup {<<"pages", v>> : v \in {<<"123", Hyphen, "145">>, <<"123", EnDash, "145">>,
                                <<PpPrefix, "123", Hyphen, "145">>, <<PpPrefix, "123">>,
                                <<"123">>}}
  \cup {<<"doi", v>> : v \in {<<"doi:", "10.1234/test">>, <<"10.1234/test">>,
                              <<ResolverPrefix, "10.1234/test", ".">>,
                              <<ResolverPrefix, "10.1234/test">>,
                              <<"doi:", "10.1234/test", ".">>, <<"abc">>, <<".">>}}
  \cup {<<"publisher", v>> : v \in {<<"Press">>, <<"New York, NY: ", "Press">>}}
  \cup {<<"editors", <<Lee>>>>}
  \cup {<<"edition", v>> : v \in {<<"4">>, <<"4th">>}}
  \cup {<<"fullDate", <<"2024", ", ", "March 15">>>>, <<"bracketType", <<"Paper presentation">>>>,
        <<"conferenceName", <<"Annual Conference">>>>, <<"institution", <<"MIT">>>>,
        <<"reportNumber", <<"5">>>>}

RECURSIVE SubsetsUpTo(_, _)
\* the sets of at most n options, no two for the same field
SubsetsUpTo(S, n) ==
  IF n = 0 THEN {{}}
  ELSE LET smaller == SubsetsUpTo(S, n - 1)
       IN smaller \cup {D \cup {o} : D \in {E \in smaller : Cardinality(E) = n - 1},
                                     o \in {x \in S : TRUE}}

DistinctFields(D) == \A o1, o2 \in D : o1[1] = o2[1] => o1 = o2

RECURSIVE Override(_, _)
Override(citation, D) ==
  IF D = {} THEN citation
  ELSE LET o == CHOOSE x \in D : TRUE
       IN Override([citation EXCEPT ![o[1]] = o[2]], D \ {o})

FixInputs ==
  {Override(Baseline(t), D) :
     t \in Types,
     D \in {E \in SubsetsUpTo(FieldOptions, MaxDeviations) : DistinctFields(E)}}

FixInit ==
  /\ \E input \in FixInputs :
       /\ fx_heap = input.authors
       /\ fx_citation = [input EXCEPT !.authors = [i \in 1..Len(input.authors) |-> i]]
       /\ fx_before = input
  /\ fx_routed = <<>>
  /\ fx_errors = <<>>
  /\ fx_fixed = emptyCitation(<<>>)
  /\ fx_autoFixes = <<>>
  /\ fx_manualFixes = <<>>
  /\ fx_score = -1
  /\ fx_pc = "input"

FixIdle ==
  /\ fx_heap = <<>>
  /\ fx_citation = emptyCitation(<<>>)
  /\ fx_before = emptyCitation(<<>>)
  /\ fx_routed = <<>>
  /\ fx_errors = <<>>
  /\ fx_fixed = emptyCitation(<<>>)
  /\ fx_autoFixes = <<>>
  /\ fx_manualFixes = <<>>
  /\ fx_score = -1
  /\ fx_pc = "idle"

\* getRulesForType(citation.type)
Route ==
  /\ fx_pc = "input"
  /\ fx_routed' = getRulesForType(fx_citation.type)
  /\ fx_pc' = "routed"
  /\ UNCHANGED <<fx_heap, fx_citation, fx_before, fx_errors, fx_fixed, fx_autoFixes,
                 fx_manualFixes, fx_score>>
  /\ UNCHANGED exceptFix

\* for (const rule of ALL_RULES) errors.push(...rule(citation))
RunRules ==
  /\ fx_pc = "routed"
  /\ fx_errors' = runRules(ALL_RULES, View(fx_citation, fx_heap))
  /\ fx_pc' = "checked"
  /\ UNCHANGED <<fx_heap, fx_citation, fx_before, fx_routed, fx_fixed, fx_autoFixes,
                 fx_manualFixes, fx_score>>
  /\ UNCHANGED exceptFix

ApplyAutoFixes ==
  /\ fx_pc = "checked"
  /\ LET r == applyAutoFixes(fx_citation, fx_heap, fx_errors)
     IN /\ fx_heap' = r.heap
        /\ fx_fixed' = r.fixed
        /\ fx_autoFixes' = r.autoFixes
        /\ fx_manualFixes' = r.manualFixes
  /\ fx_pc' = "fixed"
  /\ UNCHANGED <<fx_citation, fx_before, fx_routed, fx_errors, fx_score>>
  /\ UNCHANGED exceptFix

CalculateScore ==
  /\ fx_pc = "fixed"
  /\ fx_score' = calculateScore(fx_errors, fx_autoFixes)
  /\ fx_pc' = "scored"
  /\ UNCHANGED <<fx_heap, fx_citation, fx_before, fx_routed, fx_errors, fx_fixed,
                 fx_autoFixes, fx_manualFixes>>
  /\ UNCHANGED exceptFix

FixNext == Route \/ RunRules \/ ApplyAutoFixes \/ CalculateScore

\* ------------------------------------------------------------------------
\* Order harness: rules, applyAutoFixes and calculateScore over one record
\* with the rules taken in the order of the table and in another order,
\* and the rules run once more over the corrected record
\* ------------------------------------------------------------------------
Reverse(s) == [i \in 1..Len(s) |-> s[Len(s) + 1 - i]]

Exchange(s, i, j) == [s EXCEPT ![i] = s[j], ![j] = s[i]]

\* the table, the table reversed, the table with two of its rules exchanged
RuleOrders ==
  {Reverse(ALL_RULES)}
  \cup {Exchange(ALL_RULES, i, j) : i, j \in 1..Len(ALL_RULES)}

OrderInputs ==
  {Override(Baseline(t), D) :
     t \in Types,
     D \in {E \in SubsetsUpTo(FieldOptions, MaxOrderDeviations) : DistinctFields(E)}}

\* the record with its authors as references into the heap citation.authors
byReference(citation) ==
  [citation EXCEPT !.authors = [i \in 1..Len(citation.authors) |-> i]]

\* what one validation makes of the violations found, of the working copy
\* applyAutoFixes built from them and of the fixes it applied: the string
\* it returns and the score
outcomeOf(errors, r, fixed) ==
  [errors |-> errors, autoFixes |-> r.autoFixes, manualFixes |-> r.manualFixes,
   fixed |-> fixed, fixedCitation |-> reconstructCitation(fixed),
   score |-> calculateScore(errors, r.autoFixes)]

noOutcome ==
  [errors |-> <<>>, autoFixes |-> <<>>, manualFixes |-> <<>>, fixed |-> emptyCitation(<<>>),
   fixedCitation |-> <<>>, score |-> -1]

OrderInit ==
  /\ od_citation \in OrderInputs
  /\ od_order = ALL_RULES
  /\ od_table = noOutcome
  /\ od_permuted = noOutcome
  /\ od_again = <<>>
  /\ od_pc = "input"

OrderIdle ==
  /\ od_citation = emptyCitation(<<>>)
  /\ od_order = <<>>
  /\ od_table = noOutcome
  /\ od_permuted = noOutcome
  /\ od_again = <<>>
  /\ od_pc = "idle"

\* the rules in the order of ROUTED_RULES, applyAutoFixes, calculateScore
InTableOrder ==
  /\ od_pc = "input"
  /\ \E errors \in {runRules(ALL_RULES, od_citation)} :
       \E r \in {applyAutoFixes(byReference(od_citation), od_citation.authors, errors)} :
         \E fixed \in {View(r.fixed, r.heap)} :
           od_table' = outcomeOf(errors, r, fixed)
  /\ od_pc' = "table"
  /\ UNCHANGED <<od_citation, od_order, od_permuted, od_again>>
  /\ UNCHANGED exceptOrder

\* the same rules over the record that applyAutoFixes corrected
Recheck ==
  /\ od_pc = "table"
  /\ od_again' = runRules(ALL_RULES, od_table.fixed)
  /\ od_pc' = "rechecked"
  /\ UNCHANGED <<od_citation, od_order, od_table, od_permuted>>
  /\ UNCHANGED exceptOrder

\* the rules of the table in another order, applyAutoFixes, calculateScore
InOtherOrder ==
  /\ od_pc = "rechecked"
  /\ \E order \in RuleOrders :
       /\ od_order' = order
       /\ \E errors \in {runRules(order, od_citation)} :
            \E r \in {applyAutoFixes(byReference(od_citation), od_citation.authors, errors)} :
              \E fixed \in {View(r.fixed, r.heap)} :
                od_permuted' = outcomeOf(errors, r, fixed)
  /\ od_pc' = "permuted"
  /\ UNCHANGED <<od_citation, od_table, od_again>>
  /\ UNCHANGED exceptOrder

OrderNext == InTableOrder \/ Recheck \/ InOtherOrder

\* ------------------------------------------------------------------------
\* Hook harness: useCitationValidator and the calls of its validate()
\* ------------------------------------------------------------------------
ValidateCalls == 1..MaxValidateCalls

\* what fetch('/api/validate') may come to: a response that is ok, a
\* response that is not (with or without an error text in its body), or a
\* rejection
FetchOutcomes == {"ok", "notOkWithError", "notOkWithoutError", "rejected"}

\* useState([]), useState(false), useState(null)
HookInit ==
  /\ hk_results = <<>>
  /\ hk_isLoading = FALSE
  /\ hk_error = "null"
  /\ hk_pc = [c \in ValidateCalls |-> "idle"]

HookIdle ==
  /\ hk_results = <<>>
  /\ hk_isLoading = FALSE
  /\ hk_error = "null"
  /\ hk_pc = <<>>

\* data.error || 'Validation failed'; err.message of a rejected fetch
errorOf(outcome) ==
  CASE outcome = "notOkWithError" -> "data.error"
    [] outcome = "notOkWithoutError" -> "Validation failed"
    [] outcome = "rejected" -> "err.message"

\* validate up to its await of fetch
Validate(c) ==
  /\ hk_pc[c] = "idle"
  /\ hk_isLoading' = TRUE
  /\ hk_error' = "null"
  /\ hk_results' = <<>>
  /\ hk_pc' = [hk_pc EXCEPT ![c] = "fetching"]
  /\ UNCHANGED exceptHook

\* fetch settles: the body of a response is awaited next, a rejection goes
\* to the catch and the finally
FetchSettles(c) ==
  /\ hk_pc[c] = "fetching"
  /\ \E outcome \in FetchOutcomes :
       IF outcome = "rejected"
       THEN /\ hk_error' = errorOf(outcome)
            /\ hk_isLoading' = FALSE
            /\ hk_pc' = [hk_pc EXCEPT ![c] = "done"]
            /\ UNCHANGED hk_results
       ELSE /\ hk_pc' = [hk_pc EXCEPT ![c] = outcome]
            /\ UNCHANGED <<hk_results, hk_isLoading, hk_error>>
  /\ UNCHANGED exceptHook

\* response.json() settles: setResults, or setError with the text of the
\* body or of the rejection, then the finally
BodyRead(c) ==
  /\ hk_pc[c] \in {"ok", "notOkWithError", "notOkWithoutError"}
  /\ \E read \in {"parsed", "rejected"} :
       IF read = "rejected"
       THEN /\ hk_error' = errorOf("rejected")
            /\ UNCHANGED hk_results
       ELSE IF hk_pc[c] = "ok"
       THEN /\ hk_results' = <<c>>
            /\ UNCHANGED hk_error
       ELSE /\ hk_error' = errorOf(hk_pc[c])
            /\ UNCHANGED hk_results
  /\ hk_isLoading' = FALSE
  /\ hk_pc' = [hk_pc EXCEPT ![c] = "done"]
  /\ UNCHANGED exceptHook

\* clear()
Clear ==
  /\ hk_results' = <<>>
  /\ hk_error' = "null"
  /\ UNCHANGED <<hk_isLoading, hk_pc>>
  /\ UNCHANGED exceptHook

HookNext ==
  \/ \E c \in ValidateCalls : Validate(c) \/ FetchSettles(c) \/ BodyRead(c)
  \/ Clear

\* ------------------------------------------------------------------------
\* Specifications
\* ------------------------------------------------------------------------
ScoreNext == Score

InitScore == ScoreInit /\ FixIdle /\ LimiterIdle /\ ParseIdle /\ ValidateIdle /\ BatchIdle /\ RouteIdle
  /\ RoundTripIdle /\ OrderIdle /\ HookIdle

SpecScore == InitScore /\ [][ScoreNext]_vars

InitFix == ScoreIdle /\ FixInit /\ LimiterIdle /\ ParseIdle /\ ValidateIdle /\ BatchIdle /\ RouteIdle
  /\ RoundTripIdle /\ OrderIdle /\ HookIdle

SpecFix == InitFix /\ [][FixNext]_vars

InitLimiter == ScoreIdle /\ FixIdle /\ LimiterInit /\ ParseIdle /\ ValidateIdle /\ BatchIdle /\ RouteIdle
  /\ RoundTripIdle /\ OrderIdle /\ HookIdle
SpecLimiter == InitLimiter /\ [][LimiterNext]_vars
SpecLimiterService == InitLimiter /\ [][LimiterServiceNext]_vars /\ LimiterFairness

InitParse == ScoreIdle /\ FixIdle /\ LimiterIdle /\ ParseInit /\ ValidateIdle /\ BatchIdle /\ RouteIdle
  /\ RoundTripIdle /\ OrderIdle /\ HookIdle
SpecParse == InitParse /\ [][ParseNext]_vars

InitValidate == ScoreIdle /\ FixIdle /\ LimiterIdle /\ ParseIdle /\ ValidateInit /\ BatchIdle /\ RouteIdle
  /\ RoundTripIdle /\ OrderIdle /\ HookIdle
SpecValidate == InitValidate /\ [][ValidateNext]_vars

InitBatch == ScoreIdle /\ FixIdle /\ LimiterIdle /\ ParseIdle /\ ValidateIdle /\ BatchInit /\ RouteIdle
  /\ RoundTripIdle /\ OrderIdle /\ HookIdle
SpecBatch == InitBatch /\ [][BatchNext]_vars

InitRoute ==
  /\ ScoreIdle /\ FixIdle /\ LimiterIdle /\ ParseIdle /\ ValidateIdle /\ BatchIdle
  /\ RouteInit /\ RoundTripIdle /\ OrderIdle /\ HookIdle
SpecRoute == InitRoute /\ [][RouteNext]_vars

InitRoundTrip ==
  /\ ScoreIdle /\ FixIdle /\ LimiterIdle /\ ParseIdle /\ ValidateIdle /\ BatchIdle
  /\ RouteIdle /\ RoundTripInit /\ OrderIdle /\ HookIdle
SpecRoundTrip == InitRoundTrip /\ [][RoundTripNext]_vars

InitOrder ==
  /\ ScoreIdle /\ FixIdle /\ LimiterIdle /\ ParseIdle /\ ValidateIdle /\ BatchIdle
  /\ RouteIdle /\ RoundTripIdle /\ OrderInit /\ HookIdle
SpecOrder == InitOrder /\ [][OrderNext]_vars

InitHook ==
  /\ ScoreIdle /\ FixIdle /\ LimiterIdle /\ ParseIdle /\ ValidateIdle /\ BatchIdle
  /\ RouteIdle /\ RoundTripIdle /\ OrderIdle /\ HookInit
SpecHook == InitHook /\ [][HookNext]_vars

\* ------------------------------------------------------------------------
\* Properties of calculateScore
\* ------------------------------------------------------------------------
CountSev(errors, sev) == Cardinality({i \in 1..Len(errors) : errors[i].severity = sev})

\* C1: calculateScore returns an integer in 0..100 for every list of
\* violations and every list of applied fixes (also fixes matching no
\* violation, and more fixes than violations), and exactly 100 when both
\* lists are empty.
ScoreInRange ==
  sc_pc = "scored" =>
    /\ sc_score \in 0..100
    /\ (sc_errors = <<>> /\ sc_fixes = <<>>) => sc_score = 100

\* more fixes than violations, every one matching, so the sum exceeds 100
ScoreInRangeWitness ==
  /\ sc_pc = "scored"
  /\ Len(sc_fixes) > Len(sc_errors)
  /\ rawScore2(sc_errors, sc_fixes) > 200
  /\ sc_score = 100

\* C2: with no applied fix the score is max(0, 100 - 15E - 10W - 5I); one
\* error gives 85, one warning 90, ten errors 0, and one warning with its
\* matching applied fix gives 95.
ScoreArithmetic ==
  /\ (sc_pc = "scored" /\ sc_fixes = <<>>) =>
        sc_score = Max(0, 100 - 15 * CountSev(sc_errors, "error")
                              - 10 * CountSev(sc_errors, "warning")
                              - 5 * CountSev(sc_errors, "info"))
  /\ calculateScore(<<ScoreViolation("test", "error")>>, <<>>) = 85
  /\ calculateScore(<<ScoreViolation("test", "warning")>>, <<>>) = 90
  /\ calculateScore(Repeat(ScoreViolation("test", "error"), 10), <<>>) = 0
  /\ calculateScore(<<ScoreViolation("titleCase", "warning")>>,
                    <<[rule |-> "titleCase", field |-> "f"]>>) = 95

\* ten errors and no fix: the clamped case
ScoreArithmeticWitness ==
  /\ sc_pc = "scored"
  /\ sc_fixes = <<>>
  /\ CountSev(sc_errors, "error") = 10
  /\ sc_score = 0

\* ------------------------------------------------------------------------
\* Properties of the fixer (rules, applyAutoFixes, calculateScore together)
\* ------------------------------------------------------------------------
fixDone == fx_pc \in {"fixed", "scored"}

\* the violations that gave rise to an applied fix, in order: the k-th
\* applied fix was pushed while the loop handled violation fixSources[k]
fixSources ==
  LET st0 == [heap |-> fx_heap, fixed |-> fx_fixed, autoFixes |-> <<>>, manualFixes |-> <<>>]
  IN SelectIdx({i \in 1..Len(fx_errors) : Len(fixStep(st0, fx_errors[i]).autoFixes) = 1},
               Len(fx_errors))

\* twice what calculateScore adds back for the k-th applied fix
creditedBack2(k) ==
  LET i == originalError(fx_errors, fx_autoFixes[k])
  IN IF i = 0 THEN 0 ELSE AddBack2(fx_errors[i].severity)

\* C3: each applied fix adds back exactly half of the deduction of the
\* violation it was derived from, so the total added back never exceeds half
\* of the total deduction, also when auto-fixed violations of different
\* severities share rule and field.
HalfOfOwnDeduction ==
  fixDone =>
    /\ Len(fixSources) = Len(fx_autoFixes)
    /\ \A k \in 1..Len(fx_autoFixes) :
         creditedBack2(k) = Deduction(fx_errors[fixSources[k]].severity)
    /\ SumSeq([k \in 1..Len(fx_autoFixes) |-> creditedBack2(k)])
         <= SumSeq([i \in 1..Len(fx_errors) |-> Deduction(fx_errors[i].severity)])

\* C5: every violation a rule emits with autoFixable = true carries a
\* suggested value, and no applied fix is recorded for a violation whose
\* suggested value is absent.
FlagAgreesWithSuggestion ==
  /\ fx_pc \in {"checked", "fixed", "scored"} =>
       \A i \in 1..Len(fx_errors) :
          fx_errors[i].autoFixable => fx_errors[i].suggested # undefined
  /\ fixDone =>
       \A k \in 1..Len(fixSources) : fx_errors[fixSources[k]].suggested # undefined

routedSet == {fx_routed[k] : k \in 1..Len(fx_routed)}

\* C6: getRulesForType(t) is exactly the rules of the table whose entry is
\* 'all' or lists t; journal has the volume/issue rule and neither the
\* bracket-type nor the dissertation-info rule; conference has bracket-type
\* and conference-info and not volume/issue; dissertation has
\* dissertation-info and bracket-type and not conference-info; report has
\* report-number and publisher-required; every type has author-format,
\* year-format and title-case.
RoutingByType ==
  fx_pc # "input" =>
    LET t == fx_citation.type
    IN /\ routedSet = {ROUTED_RULES[i].rule : i \in {j \in 1..Len(ROUTED_RULES) :
                          ROUTED_RULES[j].appliesTo = AllTypes \/ t \in ROUTED_RULES[j].appliesTo}}
       /\ Cardinality(routedSet) = Len(fx_routed)
       /\ {"checkAuthorFormat", "checkYearFormat", "checkTitleCase"} \subseteq routedSet
       /\ t = "journal" =>
            /\ "checkVolumeIssueFormat" \in routedSet
            /\ "checkBracketType" \notin routedSet
            /\ "checkDissertationInfo" \notin routedSet
       /\ t = "conference" =>
            /\ {"checkBracketType", "checkConferenceInfo"} \subseteq routedSet
            /\ "checkVolumeIssueFormat" \notin routedSet
       /\ t = "dissertation" =>
            /\ {"checkDissertationInfo", "checkBracketType"} \subseteq routedSet
            /\ "checkConferenceInfo" \notin routedSet
       /\ t = "report" =>
            {"checkReportNumber", "checkPublisherRequired"} \subseteq routedSet

RoutingByTypeWitness ==
  /\ fx_pc = "routed"
  /\ fx_citation.type = "conference"
  /\ Len(fx_routed) = 9

\* C8: rule evaluation and applyAutoFixes leave the record they are given
\* unchanged, every field and every author's initials included.
InputRecordUnchanged == View(fx_citation, fx_heap) = fx_before

\* an author's initials and a scalar field were corrected on the copy
InputRecordUnchangedWitness ==
  /\ fixDone
  /\ \E k \in 1..Len(fx_autoFixes) : fx_autoFixes[k].rule = "authorFormat"
  /\ \E k \in 1..Len(fx_autoFixes) : fx_autoFixes[k].rule \in DOMAIN FIELD_MAP
  /\ View(fx_fixed, fx_heap).authors # fx_before.authors

\* ------------------------------------------------------------------------
\* Properties of the RateLimiter
\* ------------------------------------------------------------------------
inFlight == {c \in Callers : rl_pc[c] = "inFlight"}

\* C10: at every point of every interleaving of concurrent validateCitation
\* calls, at most 3 enrichment calls are in flight through the limiter.
AtMostThreeInFlight == Cardinality(inFlight) <= 3

\* three calls in flight while a further caller is held back
AtMostThreeInFlightWitness ==
  /\ Cardinality(inFlight) = 3
  /\ \E c \in Callers : rl_pc[c] = "sleeping"
  /\ \E c \in Callers : rl_pc[c] \in {"resolved", "rejected"}

\* C11: a caller that finds 3 enrichment calls in flight waits and, every
\* enrichment call settling and every timer firing, eventually starts its own
\* call: no caller of the limiter waits forever.
WaitersEventuallyStart ==
  \A c \in Callers : (rl_pc[c] = "sleeping") ~> (rl_pc[c] = "inFlight")

\* ------------------------------------------------------------------------
\* Properties of parseCitation
\* ------------------------------------------------------------------------
\* the record with the title set to the whole trimmed text and nothing else
fallbackRecord(text) == [emptyCitation(Trim(text)) EXCEPT !.title = Trim(text)]

\* C9: parseCitation always returns a record; when no parenthesized year
\* token is found, or something fails at any point of the parsing, that
\* record has the whole trimmed text as title, type unknown, and no other
\* field populated.
FallbackRecordOnly ==
  (ps_pc = "returned" /\ (ps_failed \/ yearMatch(Trim(ps_text)) = 0)) =>
     ps_citation = fallbackRecord(ps_text)

\* ------------------------------------------------------------------------
\* Properties of validateCitation and validateCitationWithoutCrossRef
\* ------------------------------------------------------------------------
\* what the loop of applyAutoFixes records for one violation of the result
recordedFor(error) ==
  fixStep([heap |-> vd_result.citation.authors,
           fixed |-> [vd_result.citation EXCEPT
                        !.authors = [i \in 1..Len(vd_result.citation.authors) |-> i]],
           autoFixes |-> <<>>, manualFixes |-> <<>>], error)

\* C4: applied fixes and hints are in one-to-one correspondence with the
\* violations: each violation gives rise to exactly one applied fix or exactly
\* one hint, every applied fix and every hint has an originating violation
\* with the same rule identifier, and |autoFixes| + |manualFixes| = |errors|.
FixesMatchViolations ==
  vd_pc = "returned" =>
    /\ \A i \in 1..Len(vd_result.errors) :
         Len(recordedFor(vd_result.errors[i]).autoFixes)
           + Len(recordedFor(vd_result.errors[i]).manualFixes) = 1
    /\ \A k \in 1..Len(vd_result.autoFixes) :
         \E i \in 1..Len(vd_result.errors) :
            vd_result.errors[i].rule = vd_result.autoFixes[k].rule
    /\ \A k \in 1..Len(vd_result.manualFixes) :
         \E i \in 1..Len(vd_result.errors) :
            vd_result.errors[i].rule = vd_result.manualFixes[k].rule
    /\ Len(vd_result.autoFixes) + Len(vd_result.manualFixes) = Len(vd_result.errors)

\* the violations the rules routed to a type find in a record
routedViolations(citation) ==
  LET found == runRules(getRulesForType(citation.type), citation)
  IN {found[i] : i \in 1..Len(found)}

\* C7: the violations of a result come only from the rules that
\* getRulesForType returns for the type of the validated record, whatever its
\* fields and also when enrichment changed the type (the type mismatch note
\* is not the finding of a rule).
OnlyRoutedViolations ==
  vd_pc = "returned" =>
    \A i \in 1..Len(vd_result.errors) :
       \/ vd_result.errors[i].rule = "typeMismatch"
       \/ vd_result.errors[i] \in routedViolations(vd_result.citation)

\* ------------------------------------------------------------------------
\* Properties of validateCitations
\* ------------------------------------------------------------------------
RECURSIVE blockStartsFrom(_, _, _, _)
\* the positions from i on where a block of the text starts: the first
\* position that holds no white space, and every such position that comes
\* after white space with at least two line breaks (breaks counts the line
\* breaks of the white space before i, inked says that a block has started)
blockStartsFrom(text, i, breaks, inked) ==
  IF i > Len(text) THEN <<>>
  ELSE IF text[i] = "\n" THEN blockStartsFrom(text, i + 1, breaks + 1, inked)
  ELSE IF text[i] = " " THEN blockStartsFrom(text, i + 1, breaks, inked)
  ELSE (IF ~inked \/ breaks >= 2 THEN <<i>> ELSE <<>>)
       \o blockStartsFrom(text, i + 1, 0, TRUE)

blockStarts(text) == blockStartsFrom(text, 1, 0, FALSE)

\* the blocks of the text, without the white space around them
blocksOf(text) ==
  LET starts == blockStarts(text)
  IN [k \in 1..Len(starts) |->
        Trim(SubSeq(text, starts[k],
                    IF k < Len(starts) THEN starts[k + 1] - 1 ELSE Len(text)))]

\* validateCitation of a text, the enrichment call having answered a
validationOf(text, a) ==
  IF a = skipped THEN finish(parseCitation(text), FALSE, parseCitation(text).pages)
  ELSE resumed(parseCitation(text), a)

\* C12: validateCitations returns exactly one result per non-empty block of
\* the text separated by blank lines, in the order of the text, result k being
\* the validation of block k, with and without enrichment and whatever each
\* enrichment call answered.
BatchResultsInOrder ==
  bt_pc = "returned" =>
    LET blocks == blocksOf(bt_text)
    IN /\ Len(bt_results) = Len(blocks)
       /\ \A k \in 1..Len(bt_results) :
            /\ bt_results[k].citation.raw = blocks[k]
            /\ bt_results[k] = validationOf(blocks[k], bt_answers[k])
            /\ (bt_answers[k] = skipped) =
                 ~enrichmentAttempted(parseCitation(blocks[k]), bt_useCrossRef)

\* three results, blank lines before the first block, one answer trusted
BatchResultsInOrderWitness ==
  /\ bt_pc = "returned" /\ bt_useCrossRef /\ Len(bt_results) = 3
  /\ bt_text[1] = "\n"
  /\ bt_results[1] # bt_results[2]
  /\ \E k \in 1..3 : \E i \in 1..Len(bt_results[k].errors) :
        bt_results[k].errors[i].rule = "typeMismatch"

validateCitationDisabled(text) ==
  finish(parseCitation(text), FALSE, parseCitation(text).pages)

\* C14: when the enrichment call of a citation throws or answers nothing,
\* validateCitation still returns a result, the one it returns with enrichment
\* disabled (record, violations, fixes, hints, fixed record and score); in a
\* batch the results of the other citations are what their own enrichment
\* calls make them.
FailedEnrichmentIsHarmless ==
  /\ Len(bt_answers) = Len(bt_results)
  /\ \A k \in 1..Len(bt_results) :
       IF bt_answers[k] \in {null, rejected}
       THEN bt_results[k] = validateCitationDisabled(bt_citations[k])
       ELSE bt_results[k] = validationOf(bt_citations[k], bt_answers[k])

\* the first call threw, the second was answered and trusted, the third was
\* answered with nothing
FailedEnrichmentIsHarmlessWitness ==
  /\ bt_pc = "returned" /\ Len(bt_results) = 3
  /\ bt_answers[1] = rejected /\ bt_answers[3] = null
  /\ bt_answers[2] \notin {null, rejected, skipped}
  /\ bt_results[2] # validateCitationDisabled(bt_citations[2])

\* the first author of the record and the first author of the external record
\* have surnames one of which contains the other, whatever the case
surnamesAgree(citation, crossRefWork) ==
  /\ Len(citation.authors) > 0 /\ Len(crossRefWork.authors) > 0
  /\ \/ includes(lowerName(citation.authors[1].lastName),
                  lowerName(crossRefWork.authors[1].lastName))
     \/ includes(lowerName(crossRefWork.authors[1].lastName),
                  lowerName(citation.authors[1].lastName))

\* an answer that carries an identifier and a title similar enough
identifiedAndSimilar(citation, crossRefWork) ==
  /\ crossRefWork \notin {null, rejected, skipped}
  /\ Truthy(crossRefWork.doi)
  /\ titleSimilarEnough(citation.title, crossRefWork.title)

\* C15 as stated: the record passed to the rules is the parser's output unless
\* the external record carries an identifier, its title is similar enough and
\* the surnames of the two first authors contain one another.
TrustNeedsSurnameAgreement ==
  (vd_pc = "returned" /\ vd_call = "validateCitation") =>
    (~(identifiedAndSimilar(vd_parsed, vd_work) /\ surnamesAgree(vd_parsed, vd_work))
       => vd_result.citation = vd_parsed)

\* C15: the record passed to the rules is the parser's output unless the
\* external record carries an identifier, its title is similar enough and
\* either it names no author or the surnames of the two first authors contain
\* one another.
TrustGate ==
  (vd_pc = "returned" /\ vd_call = "validateCitation") =>
    (~(/\ identifiedAndSimilar(vd_parsed, vd_work)
       /\ Len(vd_work.authors) = 0 \/ surnamesAgree(vd_parsed, vd_work))
       => vd_result.citation = vd_parsed)

\* an answer with an identifier and a similar title that would have changed
\* the record is left aside because the first authors differ
TrustGateWitness ==
  /\ vd_pc = "returned" /\ vd_call = "validateCitation"
  /\ identifiedAndSimilar(vd_parsed, vd_work)
  /\ Len(vd_work.authors) > 0 /\ ~surnamesAgree(vd_parsed, vd_work)
  /\ correctCitationWithCrossRef(vd_parsed, vd_work).corrected # vd_parsed
  /\ vd_result.citation = vd_parsed

\* validateCitation with enrichment enabled has parsed a record with a title
\* and no author
noAuthorParsed ==
  /\ vd_call = "validateCitation" /\ vd_useCrossRef /\ vd_pc # "start"
  /\ Truthy(vd_parsed.title) /\ Len(vd_parsed.authors) = 0

\* C16 as stated: for a record with a title and no author the external
\* record is still consulted, and an answer with an identifier and a similar
\* title is merged.
NoAuthorStillConsulted ==
  (noAuthorParsed /\ vd_pc = "returned") =>
    /\ vd_work # skipped
    /\ identifiedAndSimilar(vd_parsed, vd_work) =>
         vd_result.citation = correctCitationWithCrossRef(vd_parsed, vd_work).corrected

\* C16: for a record with a title and no author no enrichment call is made,
\* and the result is the one of a validation with enrichment disabled.
NoAuthorNeverConsulted ==
  noAuthorParsed =>
    /\ vd_pc = "returned"
    /\ vd_work = skipped
    /\ vd_result = validateCitationDisabled(vd_text)

\* a text without authors, with a year, a title and a source, was validated
\* with enrichment enabled
NoAuthorNeverConsultedWitness ==
  /\ noAuthorParsed /\ vd_pc = "returned"
  /\ Truthy(vd_parsed.year) /\ Truthy(vd_parsed.source)
  /\ vd_result.citation = vd_parsed

\* the violations of a list that the given rule emitted
violationsOf(errors, rule) == {i \in 1..Len(errors) : errors[i].rule = rule}

\* a list of violations without those of the given rule
withoutRule(errors, rule) == SelectSeq(errors, LAMBDA e : e.rule # rule)

\* C17: the violations of a validation result hold exactly one typeMismatch
\* violation if the enrichment changed the type of the record and none
\* otherwise; that violation has severity info, is not auto-fixable, has a
\* hint and no applied fix, and the score is 5 below the score of the other
\* violations.
OneTypeMismatchPerTypeChange ==
  (vd_pc = "returned" /\ vd_call = "validateCitation") =>
    /\ Cardinality(violationsOf(vd_result.errors, "typeMismatch"))
         = (IF vd_result.citation.type # vd_parsed.type THEN 1 ELSE 0)
    /\ \A i \in violationsOf(vd_result.errors, "typeMismatch") :
         /\ vd_result.errors[i].severity = "info"
         /\ ~vd_result.errors[i].autoFixable
         /\ Cardinality(violationsOf(vd_result.manualFixes, "typeMismatch")) = 1
         /\ violationsOf(vd_result.autoFixes, "typeMismatch") = {}
         /\ vd_result.score
              = calculateScore(withoutRule(vd_result.errors, "typeMismatch"),
                               vd_result.autoFixes) - 5

\* a journal record was turned into a chapter and validated
OneTypeMismatchPerTypeChangeWitness ==
  /\ vd_pc = "returned" /\ vd_call = "validateCitation"
  /\ vd_parsed.type = "journal" /\ vd_result.citation.type = "chapter"
  /\ violationsOf(vd_result.errors, "typeMismatch") # {}
  /\ vd_result.score > 0


canonicalDoi == <<ResolverPrefix, "10.1234/test">>

\* C19: for a record whose DOI is "doi:10.1234/test", "10.1234/test" or
\* "https://doi.org/10.1234/test." the DOI rule and the applied fixes leave
\* the DOI "https://doi.org/10.1234/test"; for a DOI already in that form the
\* DOI rule emits no violation and the DOI stays as it is.
DoiCanonicalised ==
  /\ (fx_pc \in {"checked", "fixed", "scored"} /\ fx_before.doi = canonicalDoi) =>
       violationsOf(fx_errors, "doiFormat") = {}
  /\ (/\ fx_pc \in {"fixed", "scored"}
      /\ fx_before.doi \in {<<"doi:", "10.1234/test">>, <<"10.1234/test">>,
                            <<ResolverPrefix, "10.1234/test", ".">>, canonicalDoi}) =>
       fx_fixed.doi = canonicalDoi

\* the form with the trailing period has been fixed
DoiCanonicalisedWitness ==
  /\ fx_pc = "scored"
  /\ fx_before.doi = <<ResolverPrefix, "10.1234/test", ".">>
  /\ fx_fixed.doi = canonicalDoi
  /\ Cardinality(violationsOf(fx_errors, "doiFormat")) = 1
  /\ \E k \in 1..Len(fx_autoFixes) :
       fx_autoFixes[k].rule = "doiFormat" /\ fx_autoFixes[k].fixed = canonicalDoi

\* a record without its raw text
withoutRaw(citation) == [citation EXCEPT !.raw = <<>>]

\* C20: for every text whose parsed record has no violation, parsing the
\* string that reconstructCitation builds from the record gives the same
\* record, field for field, apart from the raw text.
ReconstructionRoundTrip ==
  (rt_pc = "reparsed" /\ rt_errors = <<>>) =>
    withoutRaw(rt_reparsed) = withoutRaw(rt_citation)



\* ------------------------------------------------------------------------
\* C21: the order in which the rules are evaluated does not affect the
\* outcome: with the rules of the table taken in any other order, the set
\* of violations, the corrected record, the formatted string and the score
\* are the same as in the order of the table
ToSet(s) == {s[i] : i \in 1..Len(s)}

OrderDoesNotMatter ==
  od_pc = "permuted" =>
    /\ ToSet(od_permuted.errors) = ToSet(od_table.errors)
    /\ od_permuted.fixed = od_table.fixed
    /\ od_permuted.fixedCitation = od_table.fixedCitation
    /\ od_permuted.score = od_table.score

\* the external record passed the trust gate of validateCitation
trustedAnswer(citation, crossRefWork) ==
  /\ identifiedAndSimilar(citation, crossRefWork)
  /\ Len(crossRefWork.authors) = 0 \/ surnamesAgree(citation, crossRefWork)

\* a validateCitation call has returned after merging a trusted record
merged ==
  /\ vd_pc = "returned" /\ vd_call = "validateCitation"
  /\ trustedAnswer(vd_parsed, vd_work)

\* C22: when a trusted external record maps to chapter and the local type is
\* journal, the merged record has type chapter, no volume, no issue, pages
\* that begin with the local volume when there was one, a non-empty source
\* that begins with "In ", the publisher and the editors of the external
\* record when it has them, and its edition only when the number is above 1;
\* in every other case volume, issue and source stay as parsed.
JournalToChapterMerge ==
  merged =>
    IF vd_parsed.type = "journal" /\ mapCrossRefType(vd_work.type) = "chapter"
    THEN /\ vd_result.citation.type = "chapter"
         /\ vd_result.citation.volume = undefined
         /\ vd_result.citation.issue = undefined
         /\ Truthy(vd_parsed.volume) =>
              /\ Truthy(vd_result.citation.pages)
              /\ SubSeq(vd_result.citation.pages, 1, Len(vd_parsed.volume)) = vd_parsed.volume
         /\ Truthy(vd_result.citation.source)
         /\ Head(vd_result.citation.source) = "In"
         /\ vd_result.citation.publisher
              = (IF Truthy(vd_work.publisher) THEN vd_work.publisher ELSE vd_parsed.publisher)
         /\ vd_result.citation.editors
              = (IF Len(vd_work.editors) > 0 THEN vd_work.editors ELSE vd_parsed.editors)
         /\ vd_result.citation.edition
              = (IF /\ Truthy(vd_work.edition)
                    /\ vd_work.edition[1] \in DOMAIN ParseIntOf
                    /\ ParseIntOf[vd_work.edition[1]] > 1
                 THEN vd_work.edition ELSE vd_parsed.edition)
    ELSE /\ vd_result.citation.volume = vd_parsed.volume
         /\ vd_result.citation.issue = vd_parsed.issue
         /\ vd_result.citation.source = vd_parsed.source

\* a journal record with a volume was merged with a chapter record whose
\* edition is 1: the edition is not taken, the publisher and the editors are
JournalToChapterMergeWitness ==
  /\ merged
  /\ vd_parsed.type = "journal" /\ Truthy(vd_parsed.volume)
  /\ mapCrossRefType(vd_work.type) = "chapter"
  /\ vd_work.edition = <<"1">>
  /\ vd_result.citation.publisher = <<"Sage">>
  /\ vd_result.citation.editors = <<Lee>>
  /\ vd_result.citation.edition = undefined

\* a pages value with a range separator
hasSeparator(pages) == Truthy(pages) /\ (hasTok(pages, Hyphen) \/ hasTok(pages, EnDash))

\* the merge is a journal to chapter correction
journalBecameChapter ==
  vd_parsed.type = "journal" /\ mapCrossRefType(vd_work.type) = "chapter"

\* the identifier of the external record in its full resolver form
resolverForm(doi) ==
  <<ResolverPrefix>> \o (IF Head(doi) = ResolverPrefix THEN Tail(doi) ELSE doi)

\* the pages after the completion step were taken from the external record
externalPagesTaken(pages) ==
  pages # vd_parsed.pages /\ pages = vd_work.pages

\* the external pages may be taken: no local value, or a local value without
\* range separator and an external range
completionAllowed ==
  \/ ~Truthy(vd_parsed.pages)
  \/ ~hasSeparator(vd_parsed.pages) /\ hasSeparator(vd_work.pages)

\* C23 as stated: a trusted merge sets the DOI, to the resolver form of the
\* external identifier, only when the local DOI is missing; it replaces the
\* local pages by the external ones only when the local value is missing or
\* has no range separator while the external value is a range; and a local
\* page range is always kept.
LocalDataKept ==
  merged =>
    /\ vd_result.citation.doi
         = (IF Truthy(vd_parsed.doi) THEN vd_parsed.doi ELSE resolverForm(vd_work.doi))
    /\ externalPagesTaken(vd_result.citation.pages) => completionAllowed
    /\ hasSeparator(vd_parsed.pages) => vd_result.citation.pages = vd_parsed.pages

\* the pages of the merged record before the volume was put in front
pagesBeforeVolume ==
  IF journalBecameChapter /\ Truthy(vd_parsed.volume)
  THEN SubSeq(vd_result.citation.pages, Len(vd_parsed.volume) + 2,
              Len(vd_result.citation.pages))
  ELSE vd_result.citation.pages

\* C23: a trusted merge sets the DOI, to the resolver form of the external
\* identifier, only when the local DOI is missing; it takes the external
\* pages only when the local value is missing or has no range separator
\* while the external value is a range; a local page range is never
\* replaced by the external one: it is kept as parsed, except that a
\* journal to chapter correction puts the local volume and a hyphen in
\* front of it, a leading separator of the local value dropped.
LocalDataKeptButVolumePrefix ==
  merged =>
    /\ vd_result.citation.doi
         = (IF Truthy(vd_parsed.doi) THEN vd_parsed.doi ELSE resolverForm(vd_work.doi))
    /\ externalPagesTaken(pagesBeforeVolume) => completionAllowed
    /\ hasSeparator(vd_parsed.pages) =>
         IF journalBecameChapter /\ Truthy(vd_parsed.volume)
         THEN vd_result.citation.pages
                = vd_parsed.volume \o <<Hyphen>>
                  \o (IF Head(vd_parsed.pages) \in {Hyphen, EnDash} THEN Tail(vd_parsed.pages)
                      ELSE vd_parsed.pages)
         ELSE vd_result.citation.pages = vd_parsed.pages

\* a local page range and a local DOI met an external record with another
\* range and another identifier, and both local values were kept
LocalDataKeptButVolumePrefixWitness ==
  /\ merged
  /\ ~journalBecameChapter
  /\ hasSeparator(vd_parsed.pages) /\ hasSeparator(vd_work.pages)
  /\ vd_work.pages # vd_parsed.pages
  /\ vd_result.citation.pages = vd_parsed.pages
  /\ Truthy(vd_parsed.doi) /\ resolverForm(vd_work.doi) # vd_parsed.doi
  /\ vd_result.citation.doi = vd_parsed.doi

\* C24: when a trusted external record is tagged proceedings-article and the
\* local record was parsed as a journal article, the merged record has the
\* type conference and the result holds a typeMismatch violation.
ProceedingsBecomeConference ==
  (merged /\ vd_work.type = "proceedings-article" /\ vd_parsed.type = "journal") =>
    /\ vd_result.citation.type = "conference"
    /\ violationsOf(vd_result.errors, "typeMismatch") # {}

\* C25: in every record the parser returns, the type-specific descriptors
\* agree with the type: if bracketType, conferenceName, institution,
\* databaseName or reportNumber is populated, the type is conference,
\* dissertation or report; if volume or issue is populated, the type is
\* journal.
DescriptorsAgreeWithType ==
  ps_pc = "returned" =>
    /\ (\E f \in {"bracketType", "conferenceName", "institution", "databaseName",
                  "reportNumber"} : Truthy(ps_citation[f]))
         => ps_citation.type \in {"conference", "dissertation", "report"}
    /\ (Truthy(ps_citation.volume) \/ Truthy(ps_citation.issue))
         => ps_citation.type = "journal"

\* the fields that applyAutoFixes reported a fix for
fixedFields == {od_table.autoFixes[k].field : k \in 1..Len(od_table.autoFixes)}

\* C26: auto-fixing reaches a fixed point in one pass: the rules run again
\* over the record that applyAutoFixes corrected return no auto-fixable
\* violation on a field that was fixed.
FixedPointInOnePass ==
  od_pc \in {"rechecked", "permuted"} =>
    \A i \in 1..Len(od_again) :
      od_again[i].autoFixable => od_again[i].field \notin fixedFields

\* the number of range separators in a pages value
separators(pages) ==
  Cardinality({i \in 1..Len(pages) : pages[i] \in {Hyphen, EnDash}})

\* C27: after a trusted journal to chapter correction the pages value is a
\* single page or a single range: it never holds two range separators.
SingleRangeAfterCorrection ==
  (merged /\ journalBecameChapter /\ Truthy(vd_result.citation.pages))
    => separators(vd_result.citation.pages) <= 1

\* C28: the typeMismatch violation records the type the record had before
\* the merge: its original value is the type the parser detected.
MismatchNamesParsedType ==
  merged =>
    \A i \in 1..Len(vd_result.errors) :
      vd_result.errors[i].rule = "typeMismatch"
        => vd_result.errors[i].original = <<vd_parsed.type>>

\* C29: the in-flight counter of the limiter is never negative and every slot
\* taken is given back exactly once, whether the enrichment call resolved or
\* threw: the counter is the number of calls executing, so it is 0 whenever
\* no enrichment call is executing.
SlotsGivenBack ==
  /\ rl_running >= 0
  /\ rl_running = Cardinality(inFlight)
  /\ inFlight = {} => rl_running = 0

\* every call has settled, one of them by throwing, and no slot is held
SlotsGivenBackWitness ==
  /\ inFlight = {}
  /\ rl_running = 0
  /\ \E c \in Callers : rl_pc[c] = "rejected"
  /\ \A c \in Callers : rl_pc[c] \in {"resolved", "rejected"}

\* the validate calls that were issued and have not completed
pendingCalls == {c \in ValidateCalls : hk_pc[c] \notin {"idle", "done"}}

\* C30: for any interleaving of overlapping validate calls, isLoading is true
\* in every state in which an issued validate call has not completed, and it
\* is false once all of them have completed.
LoadingWhilePending ==
  /\ pendingCalls # {} => hk_isLoading
  /\ pendingCalls = {} => ~hk_isLoading
====
